---- MODULE Spec2Model ----
(***************************************************************************)
(* Chord-progression generator (src/app.py): the scale builder get_scale,  *)
(* the degree resolver grado_to_accordo, the tablature fallback            *)
(* generate_basic_tablature and the /generate handler generate_progression.*)
(*                                                                         *)
(* Python strings are TLA+ strings; Len, SubSeq and \o act on them as on   *)
(* Python's len, slices and +.  Python indexes from 0 and TLA+ from 1:     *)
(* every index that the source stores or computes (scale positions, note   *)
(* indexes, semitone offsets) keeps its 0-based value, and one is added    *)
(* where a sequence is applied.                                            *)
(*                                                                         *)
(* The degree sign of the source's degree symbols and extension tokens is  *)
(* written with the ASCII letter o ("viio7" stands for vii followed by the *)
(* degree sign and 7).  No degree symbol, extension token or chord quality *)
(* of the source contains the letter o, so the substitution is one to one. *)
(***************************************************************************)
EXTENDS Integers, Sequences, FiniteSets, TLC

VARIABLES
    fn,          \* the operation this run applies
    pc,          \* "call": arguments bound, body not run; "return": body run
    key,         \* key / root argument
    scale_type,  \* mode argument
    grado,       \* degree symbol argument of grado_to_accordo
    chord_name,  \* chord name argument of the tablature lookup
    scale,       \* value returned by get_scale
    chord,       \* value returned by grado_to_accordo
    tablature,   \* value returned by the tablature lookup
    data,        \* JSON body of the /generate request
    rnd,         \* the draws of the process-wide random source
    style, rhythm, n_chords, gradi, scelti,   \* locals of generate_progression
    result,      \* the record generate_progression returns
    locals,      \* found_extension, base, chord_type of grado_to_accordo at its return
    database_url,  \* the DATABASE_URL the process was started with, or None
    user_statistics,  \* the rows of the table user_statistics (models.py)
    saved_progressions,  \* the rows of the table saved_progressions (models.py)
    session        \* what the last request did with db.session

vars == <<fn, pc, key, scale_type, grado, chord_name, scale, chord, tablature,
          data, rnd, style, rhythm, n_chords, gradi, scelti, result, locals,
          database_url, user_statistics, saved_progressions, session>>

(***************************************************************************)
(* Static tables, transcribed literal by literal.  TABLATURES is a         *)
(* sequence because generate_basic_tablature iterates it in insertion      *)
(* order.                                                                  *)
(***************************************************************************)
NOTE_NAMES ==
    <<"C", "C#", "D", "D#", "E", "F", "F#", "G", "G#", "A", "A#", "B">>

SCALE_INTERVALS ==
    ("major" :> <<0, 2, 4, 5, 7, 9, 11>>) @@
    ("minor" :> <<0, 2, 3, 5, 7, 8, 10>>) @@
    ("dorian" :> <<0, 2, 3, 5, 7, 9, 10>>) @@
    ("phrygian" :> <<0, 1, 3, 5, 7, 8, 10>>) @@
    ("lydian" :> <<0, 2, 4, 6, 7, 9, 11>>) @@
    ("mixolydian" :> <<0, 2, 4, 5, 7, 9, 10>>) @@
    ("locrian" :> <<0, 1, 3, 5, 6, 8, 10>>) @@
    ("harmonic_minor" :> <<0, 2, 3, 5, 7, 8, 11>>) @@
    ("melodic_minor" :> <<0, 2, 3, 5, 7, 9, 11>>)

SCALE_NAMES ==
    ("major" :> "Maggiore") @@
    ("minor" :> "Minore Naturale") @@
    ("dorian" :> "Dorico") @@
    ("phrygian" :> "Frigio") @@
    ("lydian" :> "Lidio") @@
    ("mixolydian" :> "Misolidio") @@
    ("locrian" :> "Locrio") @@
    ("harmonic_minor" :> "Minore Armonico") @@
    ("melodic_minor" :> "Minore Melodico")

\* DEGREE_MAPPINGS with viio7 entered in the type map of major only
DEGREE_MAPPINGS_type_only_entry ==
    ("major" :> [degrees |->
        ("I" :> 0) @@ ("ii" :> 1) @@ ("iii" :> 2) @@ ("IV" :> 3) @@ ("V" :> 4) @@ ("vi" :> 5) @@ ("viio" :> 6) @@ ("I7" :> 0) @@ ("ii7" :> 1) @@ ("iii7" :> 2) @@ ("IV7" :> 3) @@ ("V7" :> 4) @@ ("vi7" :> 5) @@ ("I9" :> 0) @@ ("V9" :> 4) @@ ("Isus2" :> 0) @@ ("Isus4" :> 0) @@ ("Vsus4" :> 4),
      types |->
        ("viio7" :> "dim") @@ ("I" :> "maj") @@ ("ii" :> "min") @@ ("iii" :> "min") @@ ("IV" :> "maj") @@ ("V" :> "maj") @@ ("vi" :> "min") @@ ("viio" :> "dim") @@ ("I7" :> "maj7") @@ ("ii7" :> "m7") @@ ("iii7" :> "m7") @@ ("IV7" :> "maj7") @@ ("V7" :> "7") @@ ("vi7" :> "m7") @@ ("I9" :> "9") @@ ("V9" :> "9") @@ ("Isus2" :> "sus2") @@ ("Isus4" :> "sus4") @@ ("Vsus4" :> "sus4")]) @@
    ("minor" :> [degrees |->
        ("i" :> 0) @@ ("iio" :> 1) @@ ("bIII" :> 2) @@ ("iv" :> 3) @@ ("v" :> 4) @@ ("bVI" :> 5) @@ ("bVII" :> 6) @@ ("i7" :> 0) @@ ("iio7" :> 1) @@ ("bIII7" :> 2) @@ ("iv7" :> 3) @@ ("v7" :> 4) @@ ("bVI7" :> 5) @@ ("bVII7" :> 6) @@ ("i9" :> 0) @@ ("isus2" :> 0) @@ ("isus4" :> 0),
      types |->
        ("i" :> "min") @@ ("iio" :> "dim") @@ ("bIII" :> "maj") @@ ("iv" :> "min") @@ ("v" :> "min") @@ ("bVI" :> "maj") @@ ("bVII" :> "maj") @@ ("i7" :> "m7") @@ ("iio7" :> "dim") @@ ("bIII7" :> "maj7") @@ ("iv7" :> "m7") @@ ("v7" :> "m7") @@ ("bVI7" :> "maj7") @@ ("bVII7" :> "7") @@ ("i9" :> "9") @@ ("isus2" :> "sus2") @@ ("isus4" :> "sus4")]) @@
    ("dorian" :> [degrees |->
        ("i" :> 0) @@ ("ii" :> 1) @@ ("bIII" :> 2) @@ ("IV" :> 3) @@ ("v" :> 4) @@ ("vio" :> 5) @@ ("bVII" :> 6) @@ ("i7" :> 0) @@ ("ii7" :> 1) @@ ("bIII7" :> 2) @@ ("IV7" :> 3) @@ ("v7" :> 4) @@ ("bVII7" :> 6) @@ ("isus2" :> 0) @@ ("isus4" :> 0) @@ ("IVsus2" :> 3),
      types |->
        ("i" :> "min") @@ ("ii" :> "min") @@ ("bIII" :> "maj") @@ ("IV" :> "maj") @@ ("v" :> "min") @@ ("vio" :> "dim") @@ ("bVII" :> "maj") @@ ("i7" :> "m7") @@ ("ii7" :> "m7") @@ ("bIII7" :> "maj7") @@ ("IV7" :> "maj7") @@ ("v7" :> "m7") @@ ("bVII7" :> "7") @@ ("isus2" :> "sus2") @@ ("isus4" :> "sus4") @@ ("IVsus2" :> "sus2")]) @@
    ("phrygian" :> [degrees |->
        ("i" :> 0) @@ ("bII" :> 1) @@ ("bIII" :> 2) @@ ("iv" :> 3) @@ ("vo" :> 4) @@ ("bVI" :> 5) @@ ("bvii" :> 6) @@ ("i7" :> 0) @@ ("bII7" :> 1) @@ ("bIII7" :> 2) @@ ("iv7" :> 3) @@ ("bVI7" :> 5) @@ ("bvii7" :> 6) @@ ("isus2" :> 0) @@ ("bIIsus2" :> 1),
      types |->
        ("i" :> "min") @@ ("bII" :> "maj") @@ ("bIII" :> "maj") @@ ("iv" :> "min") @@ ("vo" :> "dim") @@ ("bVI" :> "maj") @@ ("bvii" :> "min") @@ ("i7" :> "m7") @@ ("bII7" :> "maj7") @@ ("bIII7" :> "maj7") @@ ("iv7" :> "m7") @@ ("bVI7" :> "maj7") @@ ("bvii7" :> "m7") @@ ("isus2" :> "sus2") @@ ("bIIsus2" :> "sus2")]) @@
    ("lydian" :> [degrees |->
        ("I" :> 0) @@ ("II" :> 1) @@ ("iii" :> 2) @@ ("#ivo" :> 3) @@ ("V" :> 4) @@ ("vi" :> 5) @@ ("vii" :> 6) @@ ("I7" :> 0) @@ ("II7" :> 1) @@ ("iii7" :> 2) @@ ("V7" :> 4) @@ ("vi7" :> 5) @@ ("vii7" :> 6) @@ ("I9" :> 0) @@ ("Isus2" :> 0) @@ ("IIsus4" :> 1),
      types |->
        ("I" :> "maj") @@ ("II" :> "maj") @@ ("iii" :> "min") @@ ("#ivo" :> "dim") @@ ("V" :> "maj") @@ ("vi" :> "min") @@ ("vii" :> "min") @@ ("I7" :> "maj7") @@ ("II7" :> "7") @@ ("iii7" :> "m7") @@ ("V7" :> "7") @@ ("vi7" :> "m7") @@ ("vii7" :> "m7") @@ ("I9" :> "9") @@ ("Isus2" :> "sus2") @@ ("IIsus4" :> "sus4")]) @@
    ("mixolydian" :> [degrees |->
        ("I" :> 0) @@ ("ii" :> 1) @@ ("iiio" :> 2) @@ ("IV" :> 3) @@ ("v" :> 4) @@ ("vi" :> 5) @@ ("bVII" :> 6) @@ ("I7" :> 0) @@ ("ii7" :> 1) @@ ("IV7" :> 3) @@ ("v7" :> 4) @@ ("vi7" :> 5) @@ ("bVII7" :> 6) @@ ("I9" :> 0) @@ ("Isus4" :> 0) @@ ("bVIIsus2" :> 6),
      types |->
        ("I" :> "maj") @@ ("ii" :> "min") @@ ("iiio" :> "dim") @@ ("IV" :> "maj") @@ ("v" :> "min") @@ ("vi" :> "min") @@ ("bVII" :> "maj") @@ ("I7" :> "7") @@ ("ii7" :> "m7") @@ ("IV7" :> "maj7") @@ ("v7" :> "m7") @@ ("vi7" :> "m7") @@ ("bVII7" :> "maj7") @@ ("I9" :> "9") @@ ("Isus4" :> "sus4") @@ ("bVIIsus2" :> "sus2")]) @@
    ("locrian" :> [degrees |->
        ("io" :> 0) @@ ("bII" :> 1) @@ ("biii" :> 2) @@ ("iv" :> 3) @@ ("bV" :> 4) @@ ("bVI" :> 5) @@ ("bvii" :> 6) @@ ("io7" :> 0) @@ ("bII7" :> 1) @@ ("biii7" :> 2) @@ ("iv7" :> 3) @@ ("bV7" :> 4) @@ ("bVI7" :> 5) @@ ("bvii7" :> 6) @@ ("bIIsus2" :> 1) @@ ("ivsus4" :> 3),
      types |->
        ("io" :> "dim") @@ ("bII" :> "maj") @@ ("biii" :> "min") @@ ("iv" :> "min") @@ ("bV" :> "maj") @@ ("bVI" :> "maj") @@ ("bvii" :> "min") @@ ("io7" :> "dim") @@ ("bII7" :> "maj7") @@ ("biii7" :> "m7") @@ ("iv7" :> "m7") @@ ("bV7" :> "maj7") @@ ("bVI7" :> "maj7") @@ ("bvii7" :> "m7") @@ ("bIIsus2" :> "sus2") @@ ("ivsus4" :> "sus4")]) @@
    ("harmonic_minor" :> [degrees |->
        ("i" :> 0) @@ ("iio" :> 1) @@ ("bIII+" :> 2) @@ ("iv" :> 3) @@ ("V" :> 4) @@ ("bVI" :> 5) @@ ("viio" :> 6) @@ ("i7" :> 0) @@ ("iio7" :> 1) @@ ("bIII+7" :> 2) @@ ("iv7" :> 3) @@ ("V7" :> 4) @@ ("bVI7" :> 5) @@ ("viio7" :> 6) @@ ("i9" :> 0) @@ ("V9" :> 4) @@ ("isus2" :> 0) @@ ("Vsus4" :> 4),
      types |->
        ("i" :> "min") @@ ("iio" :> "dim") @@ ("bIII+" :> "aug") @@ ("iv" :> "min") @@ ("V" :> "maj") @@ ("bVI" :> "maj") @@ ("viio" :> "dim") @@ ("i7" :> "m7") @@ ("iio7" :> "dim") @@ ("bIII+7" :> "aug") @@ ("iv7" :> "m7") @@ ("V7" :> "7") @@ ("bVI7" :> "maj7") @@ ("viio7" :> "dim") @@ ("i9" :> "9") @@ ("V9" :> "9") @@ ("isus2" :> "sus2") @@ ("Vsus4" :> "sus4")]) @@
    ("melodic_minor" :> [degrees |->
        ("i" :> 0) @@ ("ii" :> 1) @@ ("bIII+" :> 2) @@ ("IV" :> 3) @@ ("V" :> 4) @@ ("vio" :> 5) @@ ("viio" :> 6) @@ ("i7" :> 0) @@ ("ii7" :> 1) @@ ("bIII+7" :> 2) @@ ("IV7" :> 3) @@ ("V7" :> 4) @@ ("vio7" :> 5) @@ ("viio7" :> 6) @@ ("i9" :> 0) @@ ("V9" :> 4) @@ ("isus2" :> 0) @@ ("IVsus2" :> 3),
      types |->
        ("i" :> "min") @@ ("ii" :> "min") @@ ("bIII+" :> "aug") @@ ("IV" :> "maj") @@ ("V" :> "maj") @@ ("vio" :> "dim") @@ ("viio" :> "dim") @@ ("i7" :> "m7") @@ ("ii7" :> "m7") @@ ("bIII+7" :> "aug") @@ ("IV7" :> "maj7") @@ ("V7" :> "7") @@ ("vio7" :> "dim") @@ ("viio7" :> "dim") @@ ("i9" :> "9") @@ ("V9" :> "9") @@ ("isus2" :> "sus2") @@ ("IVsus2" :> "sus2")])

DEGREE_MAPPINGS ==
    ("major" :> [degrees |->
        ("I" :> 0) @@ ("ii" :> 1) @@ ("iii" :> 2) @@ ("IV" :> 3) @@ ("V" :> 4) @@ ("vi" :> 5) @@ ("viio" :> 6) @@ ("I7" :> 0) @@ ("ii7" :> 1) @@ ("iii7" :> 2) @@ ("IV7" :> 3) @@ ("V7" :> 4) @@ ("vi7" :> 5) @@ ("I9" :> 0) @@ ("V9" :> 4) @@ ("Isus2" :> 0) @@ ("Isus4" :> 0) @@ ("Vsus4" :> 4),
      types |->
        ("I" :> "maj") @@ ("ii" :> "min") @@ ("iii" :> "min") @@ ("IV" :> "maj") @@ ("V" :> "maj") @@ ("vi" :> "min") @@ ("viio" :> "dim") @@ ("I7" :> "maj7") @@ ("ii7" :> "m7") @@ ("iii7" :> "m7") @@ ("IV7" :> "maj7") @@ ("V7" :> "7") @@ ("vi7" :> "m7") @@ ("I9" :> "9") @@ ("V9" :> "9") @@ ("Isus2" :> "sus2") @@ ("Isus4" :> "sus4") @@ ("Vsus4" :> "sus4")]) @@
    ("minor" :> [degrees |->
        ("i" :> 0) @@ ("iio" :> 1) @@ ("bIII" :> 2) @@ ("iv" :> 3) @@ ("v" :> 4) @@ ("bVI" :> 5) @@ ("bVII" :> 6) @@ ("i7" :> 0) @@ ("iio7" :> 1) @@ ("bIII7" :> 2) @@ ("iv7" :> 3) @@ ("v7" :> 4) @@ ("bVI7" :> 5) @@ ("bVII7" :> 6) @@ ("i9" :> 0) @@ ("isus2" :> 0) @@ ("isus4" :> 0),
      types |->
        ("i" :> "min") @@ ("iio" :> "dim") @@ ("bIII" :> "maj") @@ ("iv" :> "min") @@ ("v" :> "min") @@ ("bVI" :> "maj") @@ ("bVII" :> "maj") @@ ("i7" :> "m7") @@ ("iio7" :> "dim") @@ ("bIII7" :> "maj7") @@ ("iv7" :> "m7") @@ ("v7" :> "m7") @@ ("bVI7" :> "maj7") @@ ("bVII7" :> "7") @@ ("i9" :> "9") @@ ("isus2" :> "sus2") @@ ("isus4" :> "sus4")]) @@
    ("dorian" :> [degrees |->
        ("i" :> 0) @@ ("ii" :> 1) @@ ("bIII" :> 2) @@ ("IV" :> 3) @@ ("v" :> 4) @@ ("vio" :> 5) @@ ("bVII" :> 6) @@ ("i7" :> 0) @@ ("ii7" :> 1) @@ ("bIII7" :> 2) @@ ("IV7" :> 3) @@ ("v7" :> 4) @@ ("bVII7" :> 6) @@ ("isus2" :> 0) @@ ("isus4" :> 0) @@ ("IVsus2" :> 3),
      types |->
        ("i" :> "min") @@ ("ii" :> "min") @@ ("bIII" :> "maj") @@ ("IV" :> "maj") @@ ("v" :> "min") @@ ("vio" :> "dim") @@ ("bVII" :> "maj") @@ ("i7" :> "m7") @@ ("ii7" :> "m7") @@ ("bIII7" :> "maj7") @@ ("IV7" :> "maj7") @@ ("v7" :> "m7") @@ ("bVII7" :> "7") @@ ("isus2" :> "sus2") @@ ("isus4" :> "sus4") @@ ("IVsus2" :> "sus2")]) @@
    ("phrygian" :> [degrees |->
        ("i" :> 0) @@ ("bII" :> 1) @@ ("bIII" :> 2) @@ ("iv" :> 3) @@ ("vo" :> 4) @@ ("bVI" :> 5) @@ ("bvii" :> 6) @@ ("i7" :> 0) @@ ("bII7" :> 1) @@ ("bIII7" :> 2) @@ ("iv7" :> 3) @@ ("bVI7" :> 5) @@ ("bvii7" :> 6) @@ ("isus2" :> 0) @@ ("bIIsus2" :> 1),
      types |->
        ("i" :> "min") @@ ("bII" :> "maj") @@ ("bIII" :> "maj") @@ ("iv" :> "min") @@ ("vo" :> "dim") @@ ("bVI" :> "maj") @@ ("bvii" :> "min") @@ ("i7" :> "m7") @@ ("bII7" :> "maj7") @@ ("bIII7" :> "maj7") @@ ("iv7" :> "m7") @@ ("bVI7" :> "maj7") @@ ("bvii7" :> "m7") @@ ("isus2" :> "sus2") @@ ("bIIsus2" :> "sus2")]) @@
    ("lydian" :> [degrees |->
        ("I" :> 0) @@ ("II" :> 1) @@ ("iii" :> 2) @@ ("#ivo" :> 3) @@ ("V" :> 4) @@ ("vi" :> 5) @@ ("vii" :> 6) @@ ("I7" :> 0) @@ ("II7" :> 1) @@ ("iii7" :> 2) @@ ("V7" :> 4) @@ ("vi7" :> 5) @@ ("vii7" :> 6) @@ ("I9" :> 0) @@ ("Isus2" :> 0) @@ ("IIsus4" :> 1),
      types |->
        ("I" :> "maj") @@ ("II" :> "maj") @@ ("iii" :> "min") @@ ("#ivo" :> "dim") @@ ("V" :> "maj") @@ ("vi" :> "min") @@ ("vii" :> "min") @@ ("I7" :> "maj7") @@ ("II7" :> "7") @@ ("iii7" :> "m7") @@ ("V7" :> "7") @@ ("vi7" :> "m7") @@ ("vii7" :> "m7") @@ ("I9" :> "9") @@ ("Isus2" :> "sus2") @@ ("IIsus4" :> "sus4")]) @@
    ("mixolydian" :> [degrees |->
        ("I" :> 0) @@ ("ii" :> 1) @@ ("iiio" :> 2) @@ ("IV" :> 3) @@ ("v" :> 4) @@ ("vi" :> 5) @@ ("bVII" :> 6) @@ ("I7" :> 0) @@ ("ii7" :> 1) @@ ("IV7" :> 3) @@ ("v7" :> 4) @@ ("vi7" :> 5) @@ ("bVII7" :> 6) @@ ("I9" :> 0) @@ ("Isus4" :> 0) @@ ("bVIIsus2" :> 6),
      types |->
        ("I" :> "maj") @@ ("ii" :> "min") @@ ("iiio" :> "dim") @@ ("IV" :> "maj") @@ ("v" :> "min") @@ ("vi" :> "min") @@ ("bVII" :> "maj") @@ ("I7" :> "7") @@ ("ii7" :> "m7") @@ ("IV7" :> "maj7") @@ ("v7" :> "m7") @@ ("vi7" :> "m7") @@ ("bVII7" :> "maj7") @@ ("I9" :> "9") @@ ("Isus4" :> "sus4") @@ ("bVIIsus2" :> "sus2")]) @@
    ("locrian" :> [degrees |->
        ("io" :> 0) @@ ("bII" :> 1) @@ ("biii" :> 2) @@ ("iv" :> 3) @@ ("bV" :> 4) @@ ("bVI" :> 5) @@ ("bvii" :> 6) @@ ("io7" :> 0) @@ ("bII7" :> 1) @@ ("biii7" :> 2) @@ ("iv7" :> 3) @@ ("bV7" :> 4) @@ ("bVI7" :> 5) @@ ("bvii7" :> 6) @@ ("bIIsus2" :> 1) @@ ("ivsus4" :> 3),
      types |->
        ("io" :> "dim") @@ ("bII" :> "maj") @@ ("biii" :> "min") @@ ("iv" :> "min") @@ ("bV" :> "maj") @@ ("bVI" :> "maj") @@ ("bvii" :> "min") @@ ("io7" :> "dim") @@ ("bII7" :> "maj7") @@ ("biii7" :> "m7") @@ ("iv7" :> "m7") @@ ("bV7" :> "maj7") @@ ("bVI7" :> "maj7") @@ ("bvii7" :> "m7") @@ ("bIIsus2" :> "sus2") @@ ("ivsus4" :> "sus4")]) @@
    ("harmonic_minor" :> [degrees |->
        ("i" :> 0) @@ ("iio" :> 1) @@ ("bIII+" :> 2) @@ ("iv" :> 3) @@ ("V" :> 4) @@ ("bVI" :> 5) @@ ("viio" :> 6) @@ ("i7" :> 0) @@ ("iio7" :> 1) @@ ("bIII+7" :> 2) @@ ("iv7" :> 3) @@ ("V7" :> 4) @@ ("bVI7" :> 5) @@ ("viio7" :> 6) @@ ("i9" :> 0) @@ ("V9" :> 4) @@ ("isus2" :> 0) @@ ("Vsus4" :> 4),
      types |->
        ("i" :> "min") @@ ("iio" :> "dim") @@ ("bIII+" :> "aug") @@ ("iv" :> "min") @@ ("V" :> "maj") @@ ("bVI" :> "maj") @@ ("viio" :> "dim") @@ ("i7" :> "m7") @@ ("iio7" :> "dim") @@ ("bIII+7" :> "aug") @@ ("iv7" :> "m7") @@ ("V7" :> "7") @@ ("bVI7" :> "maj7") @@ ("viio7" :> "dim") @@ ("i9" :> "9") @@ ("V9" :> "9") @@ ("isus2" :> "sus2") @@ ("Vsus4" :> "sus4")]) @@
    ("melodic_minor" :> [degrees |->
        ("i" :> 0) @@ ("ii" :> 1) @@ ("bIII+" :> 2) @@ ("IV" :> 3) @@ ("V" :> 4) @@ ("vio" :> 5) @@ ("viio" :> 6) @@ ("i7" :> 0) @@ ("ii7" :> 1) @@ ("bIII+7" :> 2) @@ ("IV7" :> 3) @@ ("V7" :> 4) @@ ("vio7" :> 5) @@ ("viio7" :> 6) @@ ("i9" :> 0) @@ ("V9" :> 4) @@ ("isus2" :> 0) @@ ("IVsus2" :> 3),
      types |->
        ("i" :> "min") @@ ("ii" :> "min") @@ ("bIII+" :> "aug") @@ ("IV" :> "maj") @@ ("V" :> "maj") @@ ("vio" :> "dim") @@ ("viio" :> "dim") @@ ("i7" :> "m7") @@ ("ii7" :> "m7") @@ ("bIII+7" :> "aug") @@ ("IV7" :> "maj7") @@ ("V7" :> "7") @@ ("vio7" :> "dim") @@ ("viio7" :> "dim") @@ ("i9" :> "9") @@ ("V9" :> "9") @@ ("isus2" :> "sus2") @@ ("IVsus2" :> "sus2")])

PROGRESSIONI ==
    ("pop" :> (
        ("major" :> <<"I", "vi", "IV", "V", "ii", "V7", "Isus4", "Vsus4", "vi7", "I9">>) @@
        ("minor" :> <<"i", "bVII", "bVI", "iv", "v", "i7", "V7", "isus2", "bVII7", "iv7">>) @@
        ("dorian" :> <<"i", "ii", "bVII", "IV", "v", "i7", "ii7", "bVII7", "isus4", "IVsus2">>) @@
        ("phrygian" :> <<"i", "bII", "bVII", "iv", "bIII", "i7", "bII7", "isus2", "bIIsus2", "iv7">>) @@
        ("lydian" :> <<"I", "II", "V", "vi", "iii", "I7", "II7", "I9", "Isus2", "IIsus4">>) @@
        ("mixolydian" :> <<"I", "bVII", "IV", "v", "ii", "I7", "I9", "Isus4", "bVIIsus2", "iv7">>) @@
        ("locrian" :> <<"io", "bII", "bV", "iv", "bVI", "io7", "bII7", "bIIsus2", "ivsus4", "bVI7">>) @@
        ("harmonic_minor" :> <<"i", "V", "bVI", "iv", "viio", "i7", "V7", "V9", "isus2", "Vsus4">>) @@
        ("melodic_minor" :> <<"i", "V", "IV", "ii", "bIII+", "i7", "V7", "IV7", "isus2", "IVsus2">>))) @@
    ("rock" :> (
        ("major" :> <<"I", "bVII", "IV", "V", "vi", "V7", "Isus4", "Vsus4", "viio", "IV7">>) @@
        ("minor" :> <<"i", "bVII", "bVI", "iv", "bIII", "i7", "bVII7", "v7", "iio", "isus4">>) @@
        ("dorian" :> <<"i", "bVII", "IV", "ii", "v", "i7", "bVII7", "IV7", "ii7", "isus4">>) @@
        ("phrygian" :> <<"i", "bII", "bVII", "bIII", "iv", "i7", "bII7", "bIII7", "isus2", "iv7">>) @@
        ("lydian" :> <<"I", "II", "V", "#ivo", "vi", "I7", "II7", "V7", "Isus2", "vi7">>) @@
        ("mixolydian" :> <<"I", "bVII", "IV", "v", "vi", "I7", "bVII7", "IV7", "Isus4", "v7">>) @@
        ("locrian" :> <<"io", "bII", "bV", "bVI", "bvii", "io7", "bII7", "bV7", "bIIsus2", "bvii7">>) @@
        ("harmonic_minor" :> <<"i", "V", "bVI", "viio", "iv", "i7", "V7", "bVI7", "viio7", "Vsus4">>) @@
        ("melodic_minor" :> <<"i", "V", "IV", "V", "ii", "i7", "V7", "IV7", "ii7", "isus2">>))) @@
    ("jazz" :> (
        ("major" :> <<"Imaj7", "ii7", "V7", "vi7", "IV7", "I9", "V9", "iii7", "viio7", "Isus4">>) @@
        ("minor" :> <<"i7", "iv7", "bVII7", "bIII7", "bVI7", "i9", "V7", "iio7", "isus2", "iv9">>) @@
        ("dorian" :> <<"i7", "ii7", "bVII7", "IV7", "v7", "i9", "bVII9", "isus2", "isus4", "IVsus2">>) @@
        ("phrygian" :> <<"i7", "bII7", "bVI7", "iv7", "biii7", "isus2", "bIIsus2", "i9", "bII9", "iv9">>) @@
        ("lydian" :> <<"I7", "II7", "v7", "vi7", "iii7", "I9", "Isus2", "IIsus4", "V7", "vi9">>) @@
        ("mixolydian" :> <<"I7", "bVII7", "IV7", "v7", "ii7", "I9", "Isus4", "bVIIsus2", "v9", "IV9">>) @@
        ("locrian" :> <<"io7", "bII7", "bV7", "bVI7", "bvii7", "bIIsus2", "ivsus4", "bII9", "bV9", "iv7">>) @@
        ("harmonic_minor" :> <<"i7", "V7", "bVI7", "iv7", "viio7", "i9", "V9", "isus2", "Vsus4", "bVI9">>) @@
        ("melodic_minor" :> <<"i7", "V7", "IV7", "ii7", "bIII+7", "i9", "V9", "isus2", "IVsus2", "ii9">>)))

TABLATURES ==
    << [chord |-> "C maj", tab |-> <<"e|--0--", "B|--1--", "G|--0--", "D|--2--", "A|--3--", "E|--x--">>],
       [chord |-> "C# maj", tab |-> <<"e|--4--", "B|--6--", "G|--6--", "D|--6--", "A|--4--", "E|--x--">>],
       [chord |-> "Db maj", tab |-> <<"e|--4--", "B|--6--", "G|--6--", "D|--6--", "A|--4--", "E|--x--">>],
       [chord |-> "D maj", tab |-> <<"e|--2--", "B|--3--", "G|--2--", "D|--0--", "A|--x--", "E|--x--">>],
       [chord |-> "D# maj", tab |-> <<"e|--3--", "B|--4--", "G|--3--", "D|--1--", "A|--x--", "E|--x--">>],
       [chord |-> "Eb maj", tab |-> <<"e|--3--", "B|--4--", "G|--3--", "D|--1--", "A|--x--", "E|--x--">>],
       [chord |-> "E maj", tab |-> <<"e|--0--", "B|--0--", "G|--1--", "D|--2--", "A|--2--", "E|--0--">>],
       [chord |-> "F maj", tab |-> <<"e|--1--", "B|--1--", "G|--2--", "D|--3--", "A|--3--", "E|--1--">>],
       [chord |-> "F# maj", tab |-> <<"e|--2--", "B|--2--", "G|--3--", "D|--4--", "A|--4--", "E|--2--">>],
       [chord |-> "Gb maj", tab |-> <<"e|--2--", "B|--2--", "G|--3--", "D|--4--", "A|--4--", "E|--2--">>],
       [chord |-> "G maj", tab |-> <<"e|--3--", "B|--0--", "G|--0--", "D|--0--", "A|--2--", "E|--3--">>],
       [chord |-> "G# maj", tab |-> <<"e|--4--", "B|--4--", "G|--5--", "D|--6--", "A|--6--", "E|--4--">>],
       [chord |-> "Ab maj", tab |-> <<"e|--4--", "B|--4--", "G|--5--", "D|--6--", "A|--6--", "E|--4--">>],
       [chord |-> "A maj", tab |-> <<"e|--0--", "B|--2--", "G|--2--", "D|--2--", "A|--0--", "E|--x--">>],
       [chord |-> "A# maj", tab |-> <<"e|--1--", "B|--3--", "G|--3--", "D|--3--", "A|--1--", "E|--x--">>],
       [chord |-> "Bb maj", tab |-> <<"e|--1--", "B|--3--", "G|--3--", "D|--3--", "A|--1--", "E|--x--">>],
       [chord |-> "B maj", tab |-> <<"e|--2--", "B|--4--", "G|--4--", "D|--4--", "A|--2--", "E|--x--">>],
       [chord |-> "C min", tab |-> <<"e|--3--", "B|--4--", "G|--5--", "D|--5--", "A|--3--", "E|--x--">>],
       [chord |-> "C# min", tab |-> <<"e|--4--", "B|--5--", "G|--6--", "D|--6--", "A|--4--", "E|--x--">>],
       [chord |-> "Db min", tab |-> <<"e|--4--", "B|--5--", "G|--6--", "D|--6--", "A|--4--", "E|--x--">>],
       [chord |-> "D min", tab |-> <<"e|--1--", "B|--3--", "G|--2--", "D|--0--", "A|--x--", "E|--x--">>],
       [chord |-> "D# min", tab |-> <<"e|--2--", "B|--4--", "G|--3--", "D|--1--", "A|--x--", "E|--x--">>],
       [chord |-> "Eb min", tab |-> <<"e|--2--", "B|--4--", "G|--3--", "D|--1--", "A|--x--", "E|--x--">>],
       [chord |-> "E min", tab |-> <<"e|--0--", "B|--0--", "G|--0--", "D|--2--", "A|--2--", "E|--0--">>],
       [chord |-> "F min", tab |-> <<"e|--1--", "B|--1--", "G|--1--", "D|--3--", "A|--3--", "E|--1--">>],
       [chord |-> "F# min", tab |-> <<"e|--2--", "B|--2--", "G|--2--", "D|--4--", "A|--4--", "E|--2--">>],
       [chord |-> "Gb min", tab |-> <<"e|--2--", "B|--2--", "G|--2--", "D|--4--", "A|--4--", "E|--2--">>],
       [chord |-> "G min", tab |-> <<"e|--3--", "B|--3--", "G|--3--", "D|--0--", "A|--1--", "E|--3--">>],
       [chord |-> "G# min", tab |-> <<"e|--4--", "B|--4--", "G|--4--", "D|--6--", "A|--6--", "E|--4--">>],
       [chord |-> "Ab min", tab |-> <<"e|--4--", "B|--4--", "G|--4--", "D|--6--", "A|--6--", "E|--4--">>],
       [chord |-> "A min", tab |-> <<"e|--0--", "B|--1--", "G|--2--", "D|--2--", "A|--0--", "E|--x--">>],
       [chord |-> "A# min", tab |-> <<"e|--1--", "B|--2--", "G|--3--", "D|--3--", "A|--1--", "E|--x--">>],
       [chord |-> "Bb min", tab |-> <<"e|--1--", "B|--2--", "G|--3--", "D|--3--", "A|--1--", "E|--x--">>],
       [chord |-> "B min", tab |-> <<"e|--2--", "B|--3--", "G|--4--", "D|--4--", "A|--2--", "E|--x--">>],
       [chord |-> "C dim", tab |-> <<"e|--2--", "B|--3--", "G|--2--", "D|--3--", "A|--x--", "E|--x--">>],
       [chord |-> "C# dim", tab |-> <<"e|--3--", "B|--4--", "G|--3--", "D|--4--", "A|--x--", "E|--x--">>],
       [chord |-> "Db dim", tab |-> <<"e|--3--", "B|--4--", "G|--3--", "D|--4--", "A|--x--", "E|--x--">>],
       [chord |-> "D dim", tab |-> <<"e|--4--", "B|--2--", "G|--1--", "D|--0--", "A|--x--", "E|--x--">>],
       [chord |-> "D# dim", tab |-> <<"e|--2--", "B|--3--", "G|--2--", "D|--1--", "A|--x--", "E|--x--">>],
       [chord |-> "Eb dim", tab |-> <<"e|--2--", "B|--3--", "G|--2--", "D|--1--", "A|--x--", "E|--x--">>],
       [chord |-> "E dim", tab |-> <<"e|--3--", "B|--1--", "G|--0--", "D|--2--", "A|--x--", "E|--x--">>],
       [chord |-> "F dim", tab |-> <<"e|--1--", "B|--2--", "G|--1--", "D|--3--", "A|--x--", "E|--x--">>],
       [chord |-> "F# dim", tab |-> <<"e|--2--", "B|--0--", "G|--2--", "D|--4--", "A|--x--", "E|--x--">>],
       [chord |-> "Gb dim", tab |-> <<"e|--2--", "B|--0--", "G|--2--", "D|--4--", "A|--x--", "E|--x--">>],
       [chord |-> "G dim", tab |-> <<"e|--3--", "B|--1--", "G|--3--", "D|--2--", "A|--x--", "E|--x--">>],
       [chord |-> "G# dim", tab |-> <<"e|--1--", "B|--2--", "G|--1--", "D|--3--", "A|--x--", "E|--x--">>],
       [chord |-> "Ab dim", tab |-> <<"e|--1--", "B|--2--", "G|--1--", "D|--3--", "A|--x--", "E|--x--">>],
       [chord |-> "A dim", tab |-> <<"e|--2--", "B|--0--", "G|--2--", "D|--1--", "A|--x--", "E|--x--">>],
       [chord |-> "A# dim", tab |-> <<"e|--3--", "B|--1--", "G|--3--", "D|--2--", "A|--x--", "E|--x--">>],
       [chord |-> "Bb dim", tab |-> <<"e|--3--", "B|--1--", "G|--3--", "D|--2--", "A|--x--", "E|--x--">>],
       [chord |-> "B dim", tab |-> <<"e|--1--", "B|--2--", "G|--1--", "D|--3--", "A|--x--", "E|--x--">>],
       [chord |-> "C7", tab |-> <<"e|--0--", "B|--1--", "G|--3--", "D|--2--", "A|--3--", "E|--x--">>],
       [chord |-> "C maj7", tab |-> <<"e|--0--", "B|--0--", "G|--0--", "D|--2--", "A|--3--", "E|--x--">>],
       [chord |-> "C m7", tab |-> <<"e|--3--", "B|--4--", "G|--3--", "D|--5--", "A|--3--", "E|--x--">>],
       [chord |-> "D7", tab |-> <<"e|--2--", "B|--1--", "G|--2--", "D|--0--", "A|--x--", "E|--x--">>],
       [chord |-> "D maj7", tab |-> <<"e|--2--", "B|--2--", "G|--2--", "D|--0--", "A|--x--", "E|--x--">>],
       [chord |-> "D m7", tab |-> <<"e|--1--", "B|--1--", "G|--2--", "D|--0--", "A|--x--", "E|--x--">>],
       [chord |-> "E7", tab |-> <<"e|--0--", "B|--3--", "G|--1--", "D|--2--", "A|--2--", "E|--0--">>],
       [chord |-> "E maj7", tab |-> <<"e|--0--", "B|--0--", "G|--1--", "D|--1--", "A|--2--", "E|--0--">>],
       [chord |-> "E m7", tab |-> <<"e|--0--", "B|--3--", "G|--0--", "D|--2--", "A|--2--", "E|--0--">>],
       [chord |-> "F7", tab |-> <<"e|--1--", "B|--1--", "G|--2--", "D|--1--", "A|--3--", "E|--1--">>],
       [chord |-> "F maj7", tab |-> <<"e|--1--", "B|--1--", "G|--2--", "D|--2--", "A|--3--", "E|--1--">>],
       [chord |-> "F m7", tab |-> <<"e|--1--", "B|--1--", "G|--1--", "D|--1--", "A|--3--", "E|--1--">>],
       [chord |-> "G7", tab |-> <<"e|--1--", "B|--0--", "G|--0--", "D|--0--", "A|--2--", "E|--3--">>],
       [chord |-> "G maj7", tab |-> <<"e|--2--", "B|--0--", "G|--0--", "D|--0--", "A|--2--", "E|--3--">>],
       [chord |-> "G m7", tab |-> <<"e|--3--", "B|--3--", "G|--3--", "D|--3--", "A|--1--", "E|--3--">>],
       [chord |-> "A7", tab |-> <<"e|--0--", "B|--2--", "G|--0--", "D|--2--", "A|--0--", "E|--x--">>],
       [chord |-> "A maj7", tab |-> <<"e|--0--", "B|--2--", "G|--1--", "D|--2--", "A|--0--", "E|--x--">>],
       [chord |-> "A m7", tab |-> <<"e|--0--", "B|--1--", "G|--0--", "D|--2--", "A|--0--", "E|--x--">>],
       [chord |-> "B7", tab |-> <<"e|--2--", "B|--0--", "G|--2--", "D|--1--", "A|--2--", "E|--x--">>],
       [chord |-> "B maj7", tab |-> <<"e|--2--", "B|--4--", "G|--3--", "D|--4--", "A|--2--", "E|--x--">>],
       [chord |-> "B m7", tab |-> <<"e|--2--", "B|--3--", "G|--2--", "D|--4--", "A|--2--", "E|--x--">>],
       [chord |-> "C9", tab |-> <<"e|--3--", "B|--3--", "G|--3--", "D|--2--", "A|--3--", "E|--x--">>],
       [chord |-> "D9", tab |-> <<"e|--0--", "B|--3--", "G|--2--", "D|--4--", "A|--5--", "E|--x--">>],
       [chord |-> "E9", tab |-> <<"e|--2--", "B|--0--", "G|--1--", "D|--2--", "A|--2--", "E|--0--">>],
       [chord |-> "F9", tab |-> <<"e|--1--", "B|--1--", "G|--2--", "D|--1--", "A|--1--", "E|--1--">>],
       [chord |-> "G9", tab |-> <<"e|--3--", "B|--3--", "G|--0--", "D|--2--", "A|--x--", "E|--3--">>],
       [chord |-> "A9", tab |-> <<"e|--0--", "B|--0--", "G|--0--", "D|--2--", "A|--0--", "E|--x--">>],
       [chord |-> "B9", tab |-> <<"e|--2--", "B|--1--", "G|--2--", "D|--1--", "A|--2--", "E|--x--">>],
       [chord |-> "C aug", tab |-> <<"e|--1--", "B|--1--", "G|--1--", "D|--2--", "A|--3--", "E|--x--">>],
       [chord |-> "D aug", tab |-> <<"e|--3--", "B|--3--", "G|--3--", "D|--0--", "A|--x--", "E|--x--">>],
       [chord |-> "E aug", tab |-> <<"e|--1--", "B|--1--", "G|--1--", "D|--2--", "A|--2--", "E|--0--">>],
       [chord |-> "F aug", tab |-> <<"e|--2--", "B|--2--", "G|--2--", "D|--3--", "A|--3--", "E|--1--">>],
       [chord |-> "G aug", tab |-> <<"e|--0--", "B|--1--", "G|--0--", "D|--1--", "A|--2--", "E|--3--">>],
       [chord |-> "A aug", tab |-> <<"e|--1--", "B|--2--", "G|--2--", "D|--3--", "A|--0--", "E|--x--">>],
       [chord |-> "B aug", tab |-> <<"e|--3--", "B|--4--", "G|--4--", "D|--5--", "A|--2--", "E|--x--">>],
       [chord |-> "C sus2", tab |-> <<"e|--3--", "B|--1--", "G|--0--", "D|--0--", "A|--3--", "E|--x--">>],
       [chord |-> "C sus4", tab |-> <<"e|--1--", "B|--1--", "G|--1--", "D|--3--", "A|--3--", "E|--x--">>],
       [chord |-> "C# sus2", tab |-> <<"e|--4--", "B|--2--", "G|--1--", "D|--1--", "A|--4--", "E|--x--">>],
       [chord |-> "C# sus4", tab |-> <<"e|--2--", "B|--2--", "G|--2--", "D|--4--", "A|--4--", "E|--x--">>],
       [chord |-> "Db sus2", tab |-> <<"e|--4--", "B|--2--", "G|--1--", "D|--1--", "A|--4--", "E|--x--">>],
       [chord |-> "Db sus4", tab |-> <<"e|--2--", "B|--2--", "G|--2--", "D|--4--", "A|--4--", "E|--x--">>],
       [chord |-> "D sus2", tab |-> <<"e|--0--", "B|--3--", "G|--2--", "D|--0--", "A|--x--", "E|--x--">>],
       [chord |-> "D sus4", tab |-> <<"e|--3--", "B|--3--", "G|--2--", "D|--0--", "A|--x--", "E|--x--">>],
       [chord |-> "D# sus2", tab |-> <<"e|--1--", "B|--4--", "G|--3--", "D|--1--", "A|--x--", "E|--x--">>],
       [chord |-> "D# sus4", tab |-> <<"e|--4--", "B|--4--", "G|--3--", "D|--1--", "A|--x--", "E|--x--">>],
       [chord |-> "Eb sus2", tab |-> <<"e|--1--", "B|--4--", "G|--3--", "D|--1--", "A|--x--", "E|--x--">>],
       [chord |-> "Eb sus4", tab |-> <<"e|--4--", "B|--4--", "G|--3--", "D|--1--", "A|--x--", "E|--x--">>],
       [chord |-> "E sus2", tab |-> <<"e|--0--", "B|--0--", "G|--4--", "D|--2--", "A|--2--", "E|--0--">>],
       [chord |-> "E sus4", tab |-> <<"e|--0--", "B|--0--", "G|--2--", "D|--2--", "A|--2--", "E|--0--">>],
       [chord |-> "F sus2", tab |-> <<"e|--1--", "B|--1--", "G|--3--", "D|--3--", "A|--3--", "E|--1--">>],
       [chord |-> "F sus4", tab |-> <<"e|--1--", "B|--1--", "G|--3--", "D|--3--", "A|--3--", "E|--1--">>],
       [chord |-> "F# sus2", tab |-> <<"e|--2--", "B|--2--", "G|--4--", "D|--4--", "A|--4--", "E|--2--">>],
       [chord |-> "F# sus4", tab |-> <<"e|--2--", "B|--2--", "G|--4--", "D|--4--", "A|--4--", "E|--2--">>],
       [chord |-> "Gb sus2", tab |-> <<"e|--2--", "B|--2--", "G|--4--", "D|--4--", "A|--4--", "E|--2--">>],
       [chord |-> "Gb sus4", tab |-> <<"e|--2--", "B|--2--", "G|--4--", "D|--4--", "A|--4--", "E|--2--">>],
       [chord |-> "G sus2", tab |-> <<"e|--0--", "B|--0--", "G|--0--", "D|--0--", "A|--2--", "E|--3--">>],
       [chord |-> "G sus4", tab |-> <<"e|--1--", "B|--1--", "G|--0--", "D|--0--", "A|--2--", "E|--3--">>],
       [chord |-> "G# sus2", tab |-> <<"e|--1--", "B|--1--", "G|--1--", "D|--1--", "A|--x--", "E|--4--">>],
       [chord |-> "G# sus4", tab |-> <<"e|--2--", "B|--2--", "G|--1--", "D|--1--", "A|--x--", "E|--4--">>],
       [chord |-> "Ab sus2", tab |-> <<"e|--1--", "B|--1--", "G|--1--", "D|--1--", "A|--x--", "E|--4--">>],
       [chord |-> "Ab sus4", tab |-> <<"e|--2--", "B|--2--", "G|--1--", "D|--1--", "A|--x--", "E|--4--">>],
       [chord |-> "A sus2", tab |-> <<"e|--0--", "B|--0--", "G|--2--", "D|--2--", "A|--0--", "E|--x--">>],
       [chord |-> "A sus4", tab |-> <<"e|--0--", "B|--3--", "G|--2--", "D|--2--", "A|--0--", "E|--x--">>],
       [chord |-> "A# sus2", tab |-> <<"e|--1--", "B|--1--", "G|--3--", "D|--3--", "A|--1--", "E|--x--">>],
       [chord |-> "A# sus4", tab |-> <<"e|--1--", "B|--4--", "G|--3--", "D|--3--", "A|--1--", "E|--x--">>],
       [chord |-> "Bb sus2", tab |-> <<"e|--1--", "B|--1--", "G|--3--", "D|--3--", "A|--1--", "E|--x--">>],
       [chord |-> "Bb sus4", tab |-> <<"e|--1--", "B|--4--", "G|--3--", "D|--3--", "A|--1--", "E|--x--">>],
       [chord |-> "B sus2", tab |-> <<"e|--2--", "B|--2--", "G|--4--", "D|--4--", "A|--2--", "E|--x--">>],
       [chord |-> "B sus4", tab |-> <<"e|--2--", "B|--5--", "G|--4--", "D|--4--", "A|--2--", "E|--x--">>],
       [chord |-> "C# 7", tab |-> <<"e|--4--", "B|--4--", "G|--5--", "D|--4--", "A|--4--", "E|--x--">>],
       [chord |-> "C# maj7", tab |-> <<"e|--4--", "B|--4--", "G|--5--", "D|--5--", "A|--4--", "E|--x--">>],
       [chord |-> "C# m7", tab |-> <<"e|--4--", "B|--5--", "G|--4--", "D|--6--", "A|--4--", "E|--x--">>],
       [chord |-> "Db 7", tab |-> <<"e|--4--", "B|--4--", "G|--5--", "D|--4--", "A|--4--", "E|--x--">>],
       [chord |-> "Db maj7", tab |-> <<"e|--4--", "B|--4--", "G|--5--", "D|--5--", "A|--4--", "E|--x--">>],
       [chord |-> "Db m7", tab |-> <<"e|--4--", "B|--5--", "G|--4--", "D|--6--", "A|--4--", "E|--x--">>],
       [chord |-> "D# 7", tab |-> <<"e|--1--", "B|--2--", "G|--1--", "D|--1--", "A|--x--", "E|--x--">>],
       [chord |-> "D# maj7", tab |-> <<"e|--1--", "B|--3--", "G|--1--", "D|--1--", "A|--x--", "E|--x--">>],
       [chord |-> "D# m7", tab |-> <<"e|--2--", "B|--2--", "G|--1--", "D|--1--", "A|--x--", "E|--x--">>],
       [chord |-> "Eb 7", tab |-> <<"e|--1--", "B|--2--", "G|--1--", "D|--1--", "A|--x--", "E|--x--">>],
       [chord |-> "Eb maj7", tab |-> <<"e|--1--", "B|--3--", "G|--1--", "D|--1--", "A|--x--", "E|--x--">>],
       [chord |-> "Eb m7", tab |-> <<"e|--2--", "B|--2--", "G|--1--", "D|--1--", "A|--x--", "E|--x--">>],
       [chord |-> "F# 7", tab |-> <<"e|--2--", "B|--2--", "G|--3--", "D|--2--", "A|--4--", "E|--2--">>],
       [chord |-> "F# maj7", tab |-> <<"e|--2--", "B|--2--", "G|--3--", "D|--3--", "A|--4--", "E|--2--">>],
       [chord |-> "F# m7", tab |-> <<"e|--2--", "B|--2--", "G|--2--", "D|--2--", "A|--4--", "E|--2--">>],
       [chord |-> "Gb 7", tab |-> <<"e|--2--", "B|--2--", "G|--3--", "D|--2--", "A|--4--", "E|--2--">>],
       [chord |-> "Gb maj7", tab |-> <<"e|--2--", "B|--2--", "G|--3--", "D|--3--", "A|--4--", "E|--2--">>],
       [chord |-> "Gb m7", tab |-> <<"e|--2--", "B|--2--", "G|--2--", "D|--2--", "A|--4--", "E|--2--">>],
       [chord |-> "G# 7", tab |-> <<"e|--4--", "B|--4--", "G|--5--", "D|--4--", "A|--6--", "E|--4--">>],
       [chord |-> "G# maj7", tab |-> <<"e|--4--", "B|--4--", "G|--5--", "D|--5--", "A|--6--", "E|--4--">>],
       [chord |-> "G# m7", tab |-> <<"e|--4--", "B|--4--", "G|--4--", "D|--4--", "A|--6--", "E|--4--">>],
       [chord |-> "Ab 7", tab |-> <<"e|--4--", "B|--4--", "G|--5--", "D|--4--", "A|--6--", "E|--4--">>],
       [chord |-> "Ab maj7", tab |-> <<"e|--4--", "B|--4--", "G|--5--", "D|--5--", "A|--6--", "E|--4--">>],
       [chord |-> "Ab m7", tab |-> <<"e|--4--", "B|--4--", "G|--4--", "D|--4--", "A|--6--", "E|--4--">>],
       [chord |-> "A# 7", tab |-> <<"e|--1--", "B|--1--", "G|--2--", "D|--1--", "A|--1--", "E|--x--">>],
       [chord |-> "A# maj7", tab |-> <<"e|--1--", "B|--3--", "G|--2--", "D|--2--", "A|--1--", "E|--x--">>],
       [chord |-> "A# m7", tab |-> <<"e|--1--", "B|--2--", "G|--1--", "D|--3--", "A|--1--", "E|--x--">>],
       [chord |-> "Bb 7", tab |-> <<"e|--1--", "B|--1--", "G|--2--", "D|--1--", "A|--1--", "E|--x--">>],
       [chord |-> "Bb maj7", tab |-> <<"e|--1--", "B|--3--", "G|--2--", "D|--2--", "A|--1--", "E|--x--">>],
       [chord |-> "Bb m7", tab |-> <<"e|--1--", "B|--2--", "G|--1--", "D|--3--", "A|--1--", "E|--x--">>],
       [chord |-> "C# 9", tab |-> <<"e|--4--", "B|--4--", "G|--4--", "D|--4--", "A|--4--", "E|--x--">>],
       [chord |-> "Db 9", tab |-> <<"e|--4--", "B|--4--", "G|--4--", "D|--4--", "A|--4--", "E|--x--">>],
       [chord |-> "D# 9", tab |-> <<"e|--1--", "B|--1--", "G|--1--", "D|--3--", "A|--x--", "E|--x--">>],
       [chord |-> "Eb 9", tab |-> <<"e|--1--", "B|--1--", "G|--1--", "D|--3--", "A|--x--", "E|--x--">>],
       [chord |-> "F# 9", tab |-> <<"e|--2--", "B|--2--", "G|--2--", "D|--2--", "A|--2--", "E|--2--">>],
       [chord |-> "Gb 9", tab |-> <<"e|--2--", "B|--2--", "G|--2--", "D|--2--", "A|--2--", "E|--2--">>],
       [chord |-> "G# 9", tab |-> <<"e|--4--", "B|--4--", "G|--1--", "D|--3--", "A|--x--", "E|--4--">>],
       [chord |-> "Ab 9", tab |-> <<"e|--4--", "B|--4--", "G|--1--", "D|--3--", "A|--x--", "E|--4--">>],
       [chord |-> "A# 9", tab |-> <<"e|--1--", "B|--1--", "G|--1--", "D|--3--", "A|--1--", "E|--x--">>],
       [chord |-> "Bb 9", tab |-> <<"e|--1--", "B|--1--", "G|--1--", "D|--3--", "A|--1--", "E|--x--">>],
       [chord |-> "C# aug", tab |-> <<"e|--2--", "B|--2--", "G|--2--", "D|--3--", "A|--4--", "E|--x--">>],
       [chord |-> "Db aug", tab |-> <<"e|--2--", "B|--2--", "G|--2--", "D|--3--", "A|--4--", "E|--x--">>],
       [chord |-> "D# aug", tab |-> <<"e|--4--", "B|--4--", "G|--4--", "D|--1--", "A|--x--", "E|--x--">>],
       [chord |-> "Eb aug", tab |-> <<"e|--4--", "B|--4--", "G|--4--", "D|--1--", "A|--x--", "E|--x--">>],
       [chord |-> "F# aug", tab |-> <<"e|--3--", "B|--3--", "G|--3--", "D|--4--", "A|--4--", "E|--2--">>],
       [chord |-> "Gb aug", tab |-> <<"e|--3--", "B|--3--", "G|--3--", "D|--4--", "A|--4--", "E|--2--">>],
       [chord |-> "G# aug", tab |-> <<"e|--1--", "B|--2--", "G|--1--", "D|--2--", "A|--x--", "E|--4--">>],
       [chord |-> "Ab aug", tab |-> <<"e|--1--", "B|--2--", "G|--1--", "D|--2--", "A|--x--", "E|--4--">>],
       [chord |-> "A# aug", tab |-> <<"e|--2--", "B|--3--", "G|--3--", "D|--4--", "A|--1--", "E|--x--">>],
       [chord |-> "Bb aug", tab |-> <<"e|--2--", "B|--3--", "G|--3--", "D|--4--", "A|--1--", "E|--x--">>] >>

(***************************************************************************)
(* Python string primitives used by the source.                            *)
(***************************************************************************)
\* An exception that leaves the function: the value a raising call yields.
ValueError == "ValueError"
\* a local that no statement has bound
Unbound == "<unbound>"
\* Python's None
None == "None"

Min(S) == CHOOSE x \in S : \A y \in S : x <= y

\* s.find(sub, from): least 1-based position >= from where sub occurs, 0 if none
RECURSIVE Find(_, _, _)
Find(s, sub, from) ==
    IF from + Len(sub) - 1 > Len(s) THEN 0
    ELSE IF SubSeq(s, from, from + Len(sub) - 1) = sub THEN from
    ELSE Find(s, sub, from + 1)

\* sub in s
Contains(s, sub) == Find(s, sub, 1) # 0

\* s.startswith(p), s.endswith(p)
StartsWith(s, p) == Len(p) <= Len(s) /\ SubSeq(s, 1, Len(p)) = p
EndsWith(s, p) == Len(p) <= Len(s) /\ SubSeq(s, Len(s) - Len(p) + 1, Len(s)) = p

\* s.replace(sub, ""): every non-overlapping occurrence, left to right
RECURSIVE Remove(_, _)
Remove(s, sub) ==
    LET i == Find(s, sub, 1)
    IN  IF i = 0 THEN s
        ELSE SubSeq(s, 1, i - 1) \o Remove(SubSeq(s, i + Len(sub), Len(s)), sub)

\* s.split(sep)[0] and s.split(sep, 1)[1]
Before(s, sep) ==
    LET i == Find(s, sep, 1) IN IF i = 0 THEN s ELSE SubSeq(s, 1, i - 1)
After(s, sep) ==
    LET i == Find(s, sep, 1) IN IF i = 0 THEN "" ELSE SubSeq(s, i + Len(sep), Len(s))

\* int(t) for a decimal digit string; -1 stands for ValueError
Digits == "0123456789"
RECURSIVE ParseInt(_)
ParseInt(t) ==
    IF t = "" THEN -1
    ELSE LET d == Find(Digits, SubSeq(t, Len(t), Len(t)), 1)
             h == IF Len(t) = 1 THEN 0 ELSE ParseInt(SubSeq(t, 1, Len(t) - 1))
         IN  IF d = 0 \/ h < 0 THEN -1 ELSE 10 * h + (d - 1)

\* str(n) of an f-string, n >= 0
RECURSIVE IntToStr(_)
IntToStr(n) ==
    IF n < 10 THEN SubSeq(Digits, n + 1, n + 1)
    ELSE IntToStr(n \div 10) \o SubSeq(Digits, (n % 10) + 1, (n % 10) + 1)

\* s.lower() and s.title() on ASCII text
UpperCase == "ABCDEFGHIJKLMNOPQRSTUVWXYZ"
LowerCase == "abcdefghijklmnopqrstuvwxyz"
UpperSet == {SubSeq(UpperCase, i, i) : i \in 1..Len(UpperCase)}
LowerSet == {SubSeq(LowerCase, i, i) : i \in 1..Len(LowerCase)}
ToLower == [c \in UpperSet |-> SubSeq(LowerCase, Find(UpperCase, c, 1), Find(UpperCase, c, 1))]
ToUpper == [c \in LowerSet |-> SubSeq(UpperCase, Find(LowerCase, c, 1), Find(LowerCase, c, 1))]
RECURSIVE Lower(_)
Lower(s) ==
    IF s = "" THEN ""
    ELSE LET c == SubSeq(s, 1, 1)
         IN  (IF c \in UpperSet THEN ToLower[c] ELSE c) \o Lower(SubSeq(s, 2, Len(s)))
\* title(): a letter that follows a letter is lowered, any other letter raised
RECURSIVE TitleFrom(_, _)
TitleFrom(s, inWord) ==
    IF s = "" THEN ""
    ELSE LET c == SubSeq(s, 1, 1)
             out == IF inWord /\ c \in UpperSet THEN ToLower[c]
                    ELSE IF ~inWord /\ c \in LowerSet THEN ToUpper[c]
                    ELSE c
         IN  out \o TitleFrom(SubSeq(s, 2, Len(s)), c \in UpperSet \/ c \in LowerSet)
Title(s) == TitleFrom(s, FALSE)

\* d.get(k, default) and k in d
Get(d, k, default) == IF k \in DOMAIN d THEN d[k] ELSE default

\* NOTE_NAMES.index(x), 0-based; callers test membership first (ValueError)
NoteSet == {NOTE_NAMES[i] : i \in 1..Len(NOTE_NAMES)}
NoteIndexOf == [x \in NoteSet |-> (CHOOSE i \in 1..Len(NOTE_NAMES) : NOTE_NAMES[i] = x) - 1]
NoteIndex(x) == NoteIndexOf[x]
NoteAt(i) == NOTE_NAMES[(i % 12) + 1]

(***************************************************************************)
(* get_scale                                                               *)
(***************************************************************************)
\* get_scale without the "% 12": NOTE_NAMES[idx + i] leaves the list (IndexError)
get_scale_nomod(k, st) ==
    LET scale_type_ == IF st \notin DOMAIN SCALE_INTERVALS THEN "major" ELSE st
        intervals == SCALE_INTERVALS[scale_type_]
    IN  IF k \notin NoteSet THEN <<ValueError>>
        ELSE IF \E i \in 1..Len(intervals) : NoteIndex(k) + intervals[i] > 11
        THEN <<"IndexError">>
        ELSE [i \in 1..Len(intervals) |-> NoteAt(NoteIndex(k) + intervals[i])]

\* get_scale with a root outside NOTE_NAMES read as index 0
get_scale_root_default_C(k, st) ==
    LET scale_type_ == IF st \notin DOMAIN SCALE_INTERVALS THEN "major" ELSE st
        intervals == SCALE_INTERVALS[scale_type_]
        idx == IF k \in NoteSet THEN NoteIndex(k) ELSE 0
    IN  [i \in 1..Len(intervals) |-> NoteAt(idx + intervals[i])]

\* NOTE_NAMES.index(key) raises ValueError for a key outside NOTE_NAMES.
get_scale(k, st) ==
    LET scale_type_ == IF st \notin DOMAIN SCALE_INTERVALS THEN "major" ELSE st
        intervals == SCALE_INTERVALS[scale_type_]
    IN  IF k \notin NoteSet THEN <<ValueError>>
        ELSE LET idx == NoteIndex(k)
             IN  [i \in 1..Len(intervals) |-> NoteAt(idx + intervals[i])]

(***************************************************************************)
(* grado_to_accordo                                                        *)
(***************************************************************************)
\* extensions with 7 tried before the tokens that end in 7
extensions_seventh_first == <<"7", "maj7", "m7", "o7", "+7", "sus4", "sus2", "9", "o", "+">>

\* the extension tokens, in the order the loop tries them
extensions == <<"maj7", "m7", "o7", "+7", "sus4", "sus2", "9", "7", "o", "+">>

\* found_extension after the loop: the first token, from the i-th on, that
\* occurs in grado, or ""
RECURSIVE found_extension_from(_, _)
found_extension_from(g, i) ==
    IF i > Len(extensions) THEN ""
    ELSE IF Contains(g, extensions[i]) THEN extensions[i]
    ELSE found_extension_from(g, i + 1)
found_extension_of(g) == found_extension_from(g, 1)

\* base after the loop: grado with every occurrence of the found token removed
base_of(g, found_extension) ==
    IF found_extension = "" THEN g ELSE Remove(g, found_extension)

\* chord_type of the parsed path when the found token is not used as quality
chord_type_of_ignores_extension(g, found_extension, base, type_map) ==
    IF g \in DOMAIN type_map THEN type_map[g]
    ELSE Get(type_map, base, "maj")

\* chord_type of the parsed path
chord_type_of(g, found_extension, base, type_map) ==
    IF g \in DOMAIN type_map THEN type_map[g]
    ELSE IF found_extension # "" THEN found_extension
    ELSE Get(type_map, base, "maj")

\* altered_degrees with the bVII branch reading the scale position of bVI
altered_degrees_bVII_reads_5 ==
    ("bVII" :> [pos |-> 5, shift |-> -1]) @@ ("bvii" :> [pos |-> 5, shift |-> -1]) @@
    ("bVI"  :> [pos |-> 5, shift |-> -1]) @@
    ("bIII" :> [pos |-> 2, shift |-> -1]) @@ ("biii" :> [pos |-> 2, shift |-> -1]) @@
    ("bII"  :> [pos |-> 1, shift |-> -1]) @@
    ("bV"   :> [pos |-> 4, shift |-> -1]) @@
    ("#iv"  :> [pos |-> 3, shift |-> 1]) @@ ("#IV" :> [pos |-> 3, shift |-> 1])

\* altered_degrees with bV missing and the sharp fourth lowered
altered_degrees_no_bV_sharp_lowered ==
    ("bVII" :> [pos |-> 6, shift |-> -1]) @@ ("bvii" :> [pos |-> 6, shift |-> -1]) @@
    ("bVI"  :> [pos |-> 5, shift |-> -1]) @@
    ("bIII" :> [pos |-> 2, shift |-> -1]) @@ ("biii" :> [pos |-> 2, shift |-> -1]) @@
    ("bII"  :> [pos |-> 1, shift |-> -1]) @@
    ("#iv"  :> [pos |-> 3, shift |-> -1]) @@ ("#IV" :> [pos |-> 3, shift |-> -1])

\* the flat/sharp branch: base token -> scale position read and semitone shift
altered_degrees ==
    ("bVII" :> [pos |-> 6, shift |-> -1]) @@ ("bvii" :> [pos |-> 6, shift |-> -1]) @@
    ("bVI"  :> [pos |-> 5, shift |-> -1]) @@
    ("bIII" :> [pos |-> 2, shift |-> -1]) @@ ("biii" :> [pos |-> 2, shift |-> -1]) @@
    ("bII"  :> [pos |-> 1, shift |-> -1]) @@
    ("bV"   :> [pos |-> 4, shift |-> -1]) @@
    ("#iv"  :> [pos |-> 3, shift |-> 1]) @@ ("#IV" :> [pos |-> 3, shift |-> 1])

\* roman_map with the lower-case numerals counted from 1
roman_map_lower_from_1 ==
    ("I" :> 0) @@ ("II" :> 1) @@ ("III" :> 2) @@ ("IV" :> 3) @@ ("V" :> 4) @@
    ("VI" :> 5) @@ ("VII" :> 6) @@
    ("i" :> 1) @@ ("ii" :> 2) @@ ("iii" :> 3) @@ ("iv" :> 4) @@ ("v" :> 5) @@
    ("vi" :> 6) @@ ("vii" :> 0)

roman_map ==
    ("I" :> 0) @@ ("II" :> 1) @@ ("III" :> 2) @@ ("IV" :> 3) @@ ("V" :> 4) @@
    ("VI" :> 5) @@ ("VII" :> 6) @@
    ("i" :> 0) @@ ("ii" :> 1) @@ ("iii" :> 2) @@ ("iv" :> 3) @@ ("v" :> 4) @@
    ("vi" :> 5) @@ ("vii" :> 6)

\* chord_format without the space, as the TABLATURES keys C7 and C9 are written
chord_format_no_space(nota, chord_type) == nota \o chord_type

\* f"{nota} {chord_type}"
chord_format(nota, chord_type) == nota \o " " \o chord_type

\* shifted_degree without the "% 12": index 12 leaves NOTE_NAMES (IndexError),
\* index -1 is Python's last element
shifted_degree_nomod(sc, pos, shift) ==
    IF NoteIndex(sc[pos + 1]) + shift > 11 THEN "IndexError"
    ELSE NoteAt(NoteIndex(sc[pos + 1]) + shift)

\* the note one shifted from scale position pos (flat_degree / sharp_degree)
shifted_degree(sc, pos, shift) == NoteAt(NoteIndex(sc[pos + 1]) + shift)

\* grado_to_accordo without the direct lookup: every symbol is parsed
grado_to_accordo_no_direct_lookup(k, g, st) ==
    LET scale_type_ == IF st \notin DOMAIN DEGREE_MAPPINGS THEN "major" ELSE st
        degree_map == DEGREE_MAPPINGS[scale_type_].degrees
        type_map == DEGREE_MAPPINGS[scale_type_].types
        sc == get_scale(k, scale_type_)
        found_extension == found_extension_of(g)
        base == base_of(g, found_extension)
        chord_type == chord_type_of(g, found_extension, base, type_map)
        altered == StartsWith(base, "b") \/ StartsWith(base, "#")
    IN  IF altered /\ sc = <<ValueError>> THEN ValueError
        ELSE IF altered /\ base \in DOMAIN altered_degrees
        THEN chord_format(shifted_degree(sc, altered_degrees[base].pos,
                                         altered_degrees[base].shift), chord_type)
        ELSE IF base \in DOMAIN degree_map
        THEN IF sc = <<ValueError>> THEN ValueError
             ELSE chord_format(sc[degree_map[base] + 1], chord_type)
        ELSE IF base \in DOMAIN roman_map
        THEN IF sc = <<ValueError>> THEN ValueError
             ELSE chord_format(sc[roman_map[base] + 1], chord_type)
        ELSE chord_format(k, chord_type)

\* grado_to_accordo with minor as the mode of an unknown scale_type
grado_to_accordo_minor_default(k, g, st) ==
    LET scale_type_ == IF st \notin DOMAIN DEGREE_MAPPINGS THEN "minor" ELSE st
        degree_map == DEGREE_MAPPINGS[scale_type_].degrees
        type_map == DEGREE_MAPPINGS[scale_type_].types
        sc == get_scale(k, scale_type_)
        found_extension == found_extension_of(g)
        base == base_of(g, found_extension)
        chord_type == chord_type_of(g, found_extension, base, type_map)
        altered == StartsWith(base, "b") \/ StartsWith(base, "#")
    IN  IF g \in DOMAIN degree_map /\ g \in DOMAIN type_map
        THEN IF sc = <<ValueError>> THEN ValueError
             ELSE chord_format(sc[degree_map[g] + 1], type_map[g])
        ELSE IF altered /\ sc = <<ValueError>> THEN ValueError
        ELSE IF altered /\ base \in DOMAIN altered_degrees
        THEN chord_format(shifted_degree(sc, altered_degrees[base].pos,
                                         altered_degrees[base].shift), chord_type)
        ELSE IF base \in DOMAIN degree_map
        THEN IF sc = <<ValueError>> THEN ValueError
             ELSE chord_format(sc[degree_map[base] + 1], chord_type)
        ELSE IF base \in DOMAIN roman_map
        THEN IF sc = <<ValueError>> THEN ValueError
             ELSE chord_format(sc[roman_map[base] + 1], chord_type)
        ELSE chord_format(k, chord_type)

grado_to_accordo(k, g, st) ==
    LET scale_type_ == IF st \notin DOMAIN DEGREE_MAPPINGS THEN "major" ELSE st
        degree_map == DEGREE_MAPPINGS[scale_type_].degrees
        type_map == DEGREE_MAPPINGS[scale_type_].types
        sc == get_scale(k, scale_type_)
        found_extension == found_extension_of(g)
        base == base_of(g, found_extension)
        chord_type == chord_type_of(g, found_extension, base, type_map)
        altered == StartsWith(base, "b") \/ StartsWith(base, "#")
    IN  IF g \in DOMAIN degree_map /\ g \in DOMAIN type_map
        THEN IF sc = <<ValueError>> THEN ValueError
             ELSE chord_format(sc[degree_map[g] + 1], type_map[g])
        ELSE IF altered /\ sc = <<ValueError>> THEN ValueError
        ELSE IF altered /\ base \in DOMAIN altered_degrees
        THEN chord_format(shifted_degree(sc, altered_degrees[base].pos,
                                         altered_degrees[base].shift), chord_type)
        ELSE IF base \in DOMAIN degree_map
        THEN IF sc = <<ValueError>> THEN ValueError
             ELSE chord_format(sc[degree_map[base] + 1], chord_type)
        ELSE IF base \in DOMAIN roman_map
        THEN IF sc = <<ValueError>> THEN ValueError
             ELSE chord_format(sc[roman_map[base] + 1], chord_type)
        ELSE chord_format(k, chord_type)

\* The locals found_extension, base and chord_type as grado_to_accordo leaves
\* them: the direct lookup binds chord_type only, after its get_scale; the
\* parsed path binds all three before its first get_scale.
grado_to_accordo_locals(k, g, st) ==
    LET scale_type_ == IF st \notin DOMAIN DEGREE_MAPPINGS THEN "major" ELSE st
        degree_map == DEGREE_MAPPINGS[scale_type_].degrees
        type_map == DEGREE_MAPPINGS[scale_type_].types
        ext == found_extension_of(g)
    IN  IF g \in DOMAIN degree_map /\ g \in DOMAIN type_map
        THEN [found_extension |-> Unbound, base |-> Unbound,
              chord_type |-> IF k \in NoteSet THEN type_map[g] ELSE Unbound]
        ELSE [found_extension |-> ext, base |-> base_of(g, ext),
              chord_type |-> chord_type_of(g, ext, base_of(g, ext), type_map)]

(***************************************************************************)
(* generate_basic_tablature and the lookup of generate_progression         *)
(***************************************************************************)
\* the all-muted diagram of the two early returns
muted_tablature == <<"e|--x--", "B|--x--", "G|--x--", "D|--x--", "A|--x--", "E|--x--">>

\* the C major pattern of the fallback
basic_pattern == <<"e|--0--", "B|--1--", "G|--0--", "D|--2--", "A|--3--", "E|--x--">>

\* string.split('--')[1].split('--')[0]: the text between the first two "--"
fret_match_of(string) == Before(After(string, "--"), "--")

\* f'{string_name}|--{new_fret}--' with string_name = string.split('|')[0]
tab_format(string, new_fret) == Before(string, "|") \o "|--" \o IntToStr(new_fret) \o "--"

\* one string of the matched-quality loop: "% 12" on the sum, which leaves
\* nothing for the "if new_fret > 12" that follows it
transpose_match(string, semitone_diff) ==
    IF Contains(string, "--x--") THEN string
    ELSE LET fret == ParseInt(fret_match_of(string))
             new_fret == (fret + semitone_diff) % 12
         IN  IF fret < 0 THEN string
             ELSE tab_format(string, IF new_fret > 12 THEN new_fret % 12 ELSE new_fret)

\* transpose_basic without the wrap above 12
transpose_basic_nowrap(string, semitone_diff) ==
    IF Contains(string, "--x--") THEN string
    ELSE LET fret == ParseInt(fret_match_of(string))
         IN  IF fret < 0 THEN string
             ELSE tab_format(string, fret + semitone_diff)

\* transpose_basic with every sum reduced mod 12, as the matched-quality loop does
transpose_basic_mod_always(string, semitone_diff) ==
    IF Contains(string, "--x--") THEN string
    ELSE LET fret == ParseInt(fret_match_of(string))
         IN  IF fret < 0 THEN string
             ELSE tab_format(string, (fret + semitone_diff) % 12)

\* one string of the fallback loop: the sum wraps only above 12
transpose_basic(string, semitone_diff) ==
    IF Contains(string, "--x--") THEN string
    ELSE LET fret == ParseInt(fret_match_of(string))
             new_fret == fret + semitone_diff
         IN  IF fret < 0 THEN string
             ELSE tab_format(string, IF new_fret > 12 THEN new_fret % 12 ELSE new_fret)

\* the entries the loop would transpose for chord_type: the quality suffix
\* matches and the entry's root is in NOTE_NAMES (else ValueError, continue)
matching_entries(chord_type) ==
    {i \in 1..Len(TABLATURES) :
        /\ EndsWith(TABLATURES[i].chord, " " \o chord_type)
        /\ Before(TABLATURES[i].chord, " ") \in NoteSet}

generate_basic_tablature(name) ==
    IF name = "" \/ ~Contains(name, " ") THEN muted_tablature
    ELSE LET root_note == Before(name, " ")
             chord_type == After(name, " ")
         IN  IF root_note \notin NoteSet THEN muted_tablature
             ELSE LET root_idx == NoteIndex(root_note)
                      found == matching_entries(chord_type)
                  IN  IF found # {}
                      THEN LET existing == TABLATURES[Min(found)]
                               existing_idx == NoteIndex(Before(existing.chord, " "))
                               semitone_diff == (root_idx - existing_idx) % 12
                           IN  [i \in 1..Len(existing.tab) |->
                                   transpose_match(existing.tab[i], semitone_diff)]
                      ELSE LET semitone_diff == (root_idx - NoteIndex("C")) % 12
                           IN  [i \in 1..Len(basic_pattern) |->
                                   transpose_basic(basic_pattern[i], semitone_diff)]

\* TABLATURES as the dictionary it is: chord name -> tablature
TABLATURES_dict ==
    [name \in {TABLATURES[i].chord : i \in 1..Len(TABLATURES)} |->
        TABLATURES[CHOOSE i \in 1..Len(TABLATURES) : TABLATURES[i].chord = name].tab]

\* TABLATURES.get on a lookup that also tries the name without its space
tablatures_get_spaceless(name) ==
    IF name \in DOMAIN TABLATURES_dict THEN TABLATURES_dict[name]
    ELSE Get(TABLATURES_dict, Remove(name, " "), <<>>)

\* TABLATURES.get(chord_name, [])
tablatures_get(name) == Get(TABLATURES_dict, name, <<>>)

\* the tablature of a chord entry: the exact lookup, else the generated one
tablature_of(name) ==
    LET tab == tablatures_get(name)
    IN  IF tab # <<>> THEN tab ELSE generate_basic_tablature(name)

(***************************************************************************)
(* generate_progression (POST /generate)                                   *)
(***************************************************************************)
rhythm_map == ("lento" :> 3) @@ ("moderato" :> 6) @@ ("veloce" :> 9)

\* rhythm_map.get(rhythm, 6), with 3 as the default
n_chords_of_default_3(r) == Get(rhythm_map, r, 3)
\* rhythm_map.get(rhythm, 6)
n_chords_of(r) == Get(rhythm_map, r, 6)

\* gradi_of with the pop table as the default of an unknown style
gradi_of_pop_default(sty, st) ==
    LET style_progressions == Get(PROGRESSIONI, sty, PROGRESSIONI["pop"])
    IN  Get(style_progressions, st, <<"I", "IV", "V">>)
\* PROGRESSIONI.get(style, {"major": [...]}).get(scale_type, ["I", "IV", "V"]);
\* both sides of the isinstance test are dicts
gradi_of(sty, st) ==
    LET style_progressions == Get(PROGRESSIONI, sty, ("major" :> <<"I", "IV", "V">>))
    IN  Get(style_progressions, st, <<"I", "IV", "V">>)

\* random.choices(gradi, k=n_chords): one element of gradi per draw.  The
\* draws of the random source are the positions start, start + stride, ...
\* taken modulo len(gradi).
choices(population, k, r) ==
    [j \in 1..k |-> population[((r.start + (j - 1) * r.stride) % Len(population)) + 1]]

\* one pass of the loop without the "if not tablature" fallback
chord_entry_no_fallback(k, g, st) ==
    LET name == grado_to_accordo(k, g, st)
    IN  [name |-> name, degree |-> g, tablature |-> tablatures_get(name)]
\* one pass of the loop over scelti: the entry appended to result['chords']
chord_entry(k, g, st) ==
    LET name == grado_to_accordo(k, g, st)
    IN  [name |-> name, degree |-> g, tablature |-> tablature_of(name)]

\* the handler's return value; get_scale raising ValueError ends the request
\* with no result record.  The title's dash is written "-".
result_of(k, st, sty, chosen) ==
    LET scale_notes == get_scale(k, st)
        scale_display_name == Get(SCALE_NAMES, st, Title(st))
    IN  IF scale_notes = <<ValueError>> THEN [error |-> ValueError]
        ELSE [title |-> Title(sty) \o " - " \o k \o " " \o scale_display_name,
              scale_notes |-> scale_notes,
              scale_name |-> k \o " " \o scale_display_name,
              chords |-> [j \in 1..Len(chosen) |-> chord_entry(k, chosen[j], st)]]

(***************************************************************************)
(* The statistics update of generate_progression                           *)
(***************************************************************************)
\* What the request does with db.session: nothing when database_url is unset
\* or get_scale raised before the update; otherwise the try block reaches
\* commit(), or one of its statements raises and the except block rolls back.
statistics_outcomes(url, res) ==
    IF url = None \/ "error" \in DOMAIN res THEN {"idle"}
    ELSE {"committed", "rolled back"}

\* the counter the try block reads: that of the first row; a new
\* UserStatistics() has none, which "or 0" reads as 0
TotalOf(rows) == IF rows = <<>> THEN 0 ELSE rows[1].total_progressions_generated

\* The rows after the try block's statements: stats is the first row, or a
\* new UserStatistics() added to the session, whose counter is still unset;
\* it gets (total_progressions_generated or 0) + 1 and the request's key,
\* scale and style (the timestamps are left out).
update_statistics(rows, k, scale_type_, sty) ==
    LET stats == [total_progressions_generated |->
                      TotalOf(rows) + 1,
                  most_used_key |-> k, most_used_scale |-> scale_type_,
                  most_used_style |-> sty]
    IN  IF rows = <<>> THEN <<stats>> ELSE [rows EXCEPT ![1] = stats]

\* stats_after with the rows of a failed update left in place
stats_after_no_rollback(rows, outcome, k, scale_type_, sty) ==
    IF outcome \in {"committed", "rolled back"}
    THEN update_statistics(rows, k, scale_type_, sty) ELSE rows

\* the stored rows after the request: commit() stores the update, rollback()
\* discards it
stats_after(rows, outcome, k, scale_type_, sty) ==
    IF outcome = "committed" THEN update_statistics(rows, k, scale_type_, sty) ELSE rows

(***************************************************************************)
(* Argument domains                                                        *)
(***************************************************************************)
Modes == DOMAIN SCALE_INTERVALS
\* a mode identifier that no table knows
UnknownModes == {"blues"}
ModeArgs == Modes \cup UnknownModes
\* root arguments: the 12 canonical names, and names outside NOTE_NAMES
NonCanonicalKeys == {"Db", "H"}
KeyArgs == NoteSet \cup NonCanonicalKeys

\* Degree symbol arguments: every symbol of the degree maps and of the
\* progression pools, every prefix + numeral + extension token (the token
\* repeated up to MaxRep times), and every pair of extension tokens on V.
MaxRep == 1
Prefixes == {"", "b", "#"}
Numerals == DOMAIN roman_map \cup {"", "X"}
ExtTokens == {extensions[i] : i \in 1..Len(extensions)}
RECURSIVE Rep(_, _)
Rep(e, n) == IF n = 0 THEN "" ELSE e \o Rep(e, n - 1)
TableSymbols == UNION {DOMAIN DEGREE_MAPPINGS[m].degrees : m \in DOMAIN DEGREE_MAPPINGS}
PoolSymbols ==
    UNION {{PROGRESSIONI[s][m][i] : i \in 1..Len(PROGRESSIONI[s][m])} :
             s \in DOMAIN PROGRESSIONI, m \in Modes}
GrammarSymbols ==
    {p \o n \o Rep(e, r) : p \in Prefixes, n \in Numerals, e \in ExtTokens, r \in 0..MaxRep}
TwoExtSymbols == {"V" \o e1 \o e2 : e1 \in ExtTokens, e2 \in ExtTokens}
\* every symbol of a degree map followed by one more extension token
ExtendedTableSymbols == {s \o e : s \in TableSymbols, e \in ExtTokens}
DegreeArgs ==
    TableSymbols \cup PoolSymbols \cup GrammarSymbols \cup TwoExtSymbols
        \cup ExtendedTableSymbols

\* The chord qualities of the closed set.
ClosedQualitySet == {"maj", "min", "dim", "aug", "7", "maj7", "m7", "9", "sus2", "sus4"}

\* Chord name arguments: every key of TABLATURES, every root argument joined
\* to every quality argument, and names without the one-space form.
RootArgs == NoteSet \cup {"Db", "H", ""}
QualityArgs == ClosedQualitySet \cup ExtTokens \cup {"", "major", " maj"}
ChordArgs ==
    {TABLATURES[i].chord : i \in 1..Len(TABLATURES)}
        \cup {r \o " " \o q : r \in RootArgs, q \in QualityArgs}
        \cup {"", "C", "Cmaj", "A7 "}

\* Request bodies of /generate: every root argument, mode argument, style
\* and tempo class (a known value, a differently cased one, an unknown one),
\* and one request with each subset of its fields left out.
StyleArgs == DOMAIN PROGRESSIONI \cup {"Jazz", "blues"}
RhythmArgs == DOMAIN rhythm_map \cup {"LENTO", "adagio"}
RequestKeys == NoteSet \cup {"H"}
FullRequests ==
    {("key" :> k) @@ ("scale" :> m) @@ ("style" :> s) @@ ("rhythm" :> r) :
        k \in RequestKeys, m \in ModeArgs, s \in StyleArgs, r \in RhythmArgs}
Restrict(f, D) == [x \in D |-> f[x]]
PartialRequests ==
    {Restrict(("key" :> "D") @@ ("scale" :> "dorian") @@ ("style" :> "rock")
                @@ ("rhythm" :> "veloce"), D) :
        D \in SUBSET {"key", "scale", "style", "rhythm"}}
Requests == FullRequests \cup PartialRequests

\* Draws of the random source: every start position of the longest pool, and
\* strides up to MaxStride (stride 0 repeats one degree).
MaxStride == 1
MaxPoolLen ==
    CHOOSE n \in 1..100 :
        /\ \A s \in DOMAIN PROGRESSIONI : \A m \in DOMAIN PROGRESSIONI[s] :
              Len(PROGRESSIONI[s][m]) <= n
        /\ \E s \in DOMAIN PROGRESSIONI : \E m \in DOMAIN PROGRESSIONI[s] :
              Len(PROGRESSIONI[s][m]) = n
Draws == {[start |-> a, stride |-> d] : a \in 0..(MaxPoolLen - 1), d \in 0..MaxStride}

(***************************************************************************)
(* SpecScale: get_scale applied to every root and mode argument.            *)
(***************************************************************************)
InitScale ==
    /\ fn = "get_scale" /\ pc = "call"
    /\ key \in KeyArgs /\ scale_type \in ModeArgs
    /\ grado = "" /\ chord_name = ""
    /\ scale = <<>> /\ chord = "" /\ tablature = <<>>
    /\ data = <<>> /\ rnd = <<>>
    /\ style = "" /\ rhythm = "" /\ n_chords = 0 /\ gradi = <<>> /\ scelti = <<>>
    /\ result = <<>>
    /\ locals = <<>>
    /\ database_url = None /\ user_statistics = <<>> /\ session = "idle"
    /\ saved_progressions = <<>>

CallGetScale ==
    /\ fn = "get_scale" /\ pc = "call"
    /\ scale' = get_scale(key, scale_type)
    /\ pc' = "return"
    /\ UNCHANGED <<fn, key, scale_type, grado, chord_name, chord, tablature,
                   data, rnd, style, rhythm, n_chords, gradi, scelti, result,
                   locals, database_url, user_statistics, saved_progressions,
                   session>>

SpecScale == InitScale /\ [][CallGetScale]_vars

(***************************************************************************)
(* SpecDegree: grado_to_accordo applied to every root, degree symbol and   *)
(* mode argument.                                                          *)
(***************************************************************************)
InitDegree ==
    /\ fn = "grado_to_accordo" /\ pc = "call"
    /\ key \in KeyArgs /\ grado \in DegreeArgs /\ scale_type \in ModeArgs
    /\ chord_name = ""
    /\ scale = <<>> /\ chord = "" /\ tablature = <<>>
    /\ data = <<>> /\ rnd = <<>>
    /\ style = "" /\ rhythm = "" /\ n_chords = 0 /\ gradi = <<>> /\ scelti = <<>>
    /\ result = <<>>
    /\ locals = <<>>
    /\ database_url = None /\ user_statistics = <<>> /\ session = "idle"
    /\ saved_progressions = <<>>

CallGradoToAccordo ==
    /\ fn = "grado_to_accordo" /\ pc = "call"
    /\ chord' = grado_to_accordo(key, grado, scale_type)
    /\ locals' = grado_to_accordo_locals(key, grado, scale_type)
    /\ pc' = "return"
    /\ UNCHANGED <<fn, key, scale_type, grado, chord_name, scale, tablature,
                   data, rnd, style, rhythm, n_chords, gradi, scelti, result,
                   database_url, user_statistics, saved_progressions,
                   session>>

SpecDegree == InitDegree /\ [][CallGradoToAccordo]_vars

(***************************************************************************)
(* SpecPool: grado_to_accordo applied as generate_progression applies it   *)
(* to the shipped data: every canonical root, and every degree symbol of   *)
(* every style's pool, resolved in the pool's own mode.                    *)
(***************************************************************************)
InitPool ==
    /\ fn = "grado_to_accordo" /\ pc = "call"
    /\ key \in NoteSet
    /\ style \in DOMAIN PROGRESSIONI
    /\ scale_type \in DOMAIN PROGRESSIONI[style]
    /\ grado \in {PROGRESSIONI[style][scale_type][i] :
                    i \in 1..Len(PROGRESSIONI[style][scale_type])}
    /\ chord_name = ""
    /\ scale = <<>> /\ chord = "" /\ tablature = <<>>
    /\ data = <<>> /\ rnd = <<>>
    /\ rhythm = "" /\ n_chords = 0 /\ gradi = <<>> /\ scelti = <<>>
    /\ result = <<>>
    /\ locals = <<>>
    /\ database_url = None /\ user_statistics = <<>> /\ session = "idle"
    /\ saved_progressions = <<>>

SpecPool == InitPool /\ [][CallGradoToAccordo]_vars

(***************************************************************************)
(* SpecTab: the tablature lookup applied to every chord name argument.     *)
(***************************************************************************)
InitTab ==
    /\ fn = "tablature" /\ pc = "call"
    /\ chord_name \in ChordArgs
    /\ key = "" /\ scale_type = "" /\ grado = ""
    /\ scale = <<>> /\ chord = "" /\ tablature = <<>>
    /\ data = <<>> /\ rnd = <<>>
    /\ style = "" /\ rhythm = "" /\ n_chords = 0 /\ gradi = <<>> /\ scelti = <<>>
    /\ result = <<>>
    /\ locals = <<>>
    /\ database_url = None /\ user_statistics = <<>> /\ session = "idle"
    /\ saved_progressions = <<>>

CallTablature ==
    /\ fn = "tablature" /\ pc = "call"
    /\ tablature' = tablature_of(chord_name)
    /\ pc' = "return"
    /\ UNCHANGED <<fn, key, scale_type, grado, chord_name, scale, chord,
                   data, rnd, style, rhythm, n_chords, gradi, scelti, result,
                   locals, database_url, user_statistics, saved_progressions,
                   session>>

SpecTab == InitTab /\ [][CallTablature]_vars

(***************************************************************************)
(* SpecGen: one /generate request handled from its body to its response.   *)
(***************************************************************************)
InitGen ==
    /\ fn = "generate_progression" /\ pc = "call"
    /\ data \in Requests /\ rnd \in Draws
    /\ key = "" /\ scale_type = "" /\ grado = "" /\ chord_name = ""
    /\ scale = <<>> /\ chord = "" /\ tablature = <<>>
    /\ style = "" /\ rhythm = "" /\ n_chords = 0 /\ gradi = <<>> /\ scelti = <<>>
    /\ result = <<>>
    /\ locals = <<>>
    /\ database_url = None /\ user_statistics = <<>> /\ session = "idle"
    /\ saved_progressions = <<>>

GenerateProgression ==
    /\ fn = "generate_progression" /\ pc = "call"
    /\ key' = Get(data, "key", "C")
    /\ scale_type' = Get(data, "scale", "major")
    /\ style' = Lower(Get(data, "style", "pop"))
    /\ rhythm' = Lower(Get(data, "rhythm", "moderato"))
    /\ n_chords' = n_chords_of(rhythm')
    /\ gradi' = gradi_of(style', scale_type')
    /\ scelti' = choices(gradi', n_chords', rnd)
    /\ result' = result_of(key', scale_type', style', scelti')
    /\ \E outcome \in statistics_outcomes(database_url, result') :
          /\ session' = outcome
          /\ user_statistics' =
                stats_after(user_statistics, outcome, key', scale_type', style')
    /\ pc' = "return"
    /\ UNCHANGED <<fn, grado, chord_name, scale, chord, tablature, data, rnd,
                   locals, database_url, saved_progressions>>

SpecGen == InitGen /\ [][GenerateProgression]_vars

(***************************************************************************)
(* SpecStats: /generate requests handled one after another by a process    *)
(* started with or without DATABASE_URL, over a user_statistics table that *)
(* is empty or holds a row.                                                *)
(***************************************************************************)
\* request bodies: each subset of the fields of one request, and a request
\* whose key is outside NOTE_NAMES
StatsRequests ==
    PartialRequests \cup
        {("key" :> "H") @@ ("scale" :> "minor") @@ ("style" :> "jazz") @@ ("rhythm" :> "lento")}
StatsDraws == {d \in Draws : d.start <= 1 /\ d.stride = 1}
\* the table at start: empty, or one row counting 1
StatsTables ==
    {<<>>,
     <<[total_progressions_generated |-> 1, most_used_key |-> "C",
        most_used_scale |-> "major", most_used_style |-> "pop"]>>}
\* the requests of one run stop once the counter reaches MaxGenerated
MaxGenerated == 3

InitStats ==
    /\ fn = "generate_progression" /\ pc = "call"
    /\ data \in StatsRequests /\ rnd \in StatsDraws
    /\ key = "" /\ scale_type = "" /\ grado = "" /\ chord_name = ""
    /\ scale = <<>> /\ chord = "" /\ tablature = <<>>
    /\ style = "" /\ rhythm = "" /\ n_chords = 0 /\ gradi = <<>> /\ scelti = <<>>
    /\ result = <<>>
    /\ locals = <<>>
    /\ database_url \in {None, "postgresql://localhost/accordi"}
    /\ user_statistics \in StatsTables
    /\ session = "idle"
    /\ saved_progressions = <<>>

\* the next request arrives after the previous response
NextRequest ==
    /\ fn = "generate_progression" /\ pc = "return"
    /\ TotalOf(user_statistics) < MaxGenerated
    /\ data' \in StatsRequests /\ rnd' \in StatsDraws
    /\ key' = "" /\ scale_type' = ""
    /\ style' = "" /\ rhythm' = "" /\ n_chords' = 0 /\ gradi' = <<>> /\ scelti' = <<>>
    /\ result' = <<>>
    /\ session' = "idle"
    /\ pc' = "call"
    /\ UNCHANGED <<fn, grado, chord_name, scale, chord, tablature, locals,
                   database_url, user_statistics, saved_progressions>>

SpecStats == InitStats /\ [][GenerateProgression \/ NextRequest]_vars

(***************************************************************************)
(* save_progression (app.py 584-637) over the table saved_progressions     *)
(* (models.py 5-43).  A row carries the columns the handler reads or       *)
(* writes; created_at (a clock reading) is left out.                       *)
(***************************************************************************)
\* json.dumps of a list of strings: '["C", "D"]'
RECURSIVE json_items(_)
json_items(list) ==
    IF list = <<>> THEN ""
    ELSE "\"" \o Head(list) \o "\""
         \o (IF Len(list) > 1 THEN ", " ELSE "") \o json_items(Tail(list))
json_dumps(list) == "[" \o json_items(list) \o "]"

\* the name given to a save without one: "Progressione " and the time of the
\* request, one reading of the clock
default_name == "Progressione 03/11/2026 10:00"

\* filter_by(...).first() when only the first three columns are compared
existing_of_ignores_rhythm(rows, k, st, sty, rh) ==
    LET hits == {i \in 1..Len(rows) :
                    /\ rows[i].key_signature = k /\ rows[i].scale_type = st
                    /\ rows[i].style = sty}
    IN  IF hits = {} THEN 0 ELSE Min(hits)

\* SavedProgression.query.filter_by(key_signature, scale_type, style,
\* rhythm).first(): the index of the first matching row, 0 for None
existing_of(rows, k, st, sty, rh) ==
    LET hits == {i \in 1..Len(rows) :
                    /\ rows[i].key_signature = k /\ rows[i].scale_type = st
                    /\ rows[i].style = sty /\ rows[i].rhythm = rh}
    IN  IF hits = {} THEN 0 ELSE Min(hits)

\* the branch "if existing": the row updated in place
updated_row(row, nm, chords_list, notes_list) ==
    [row EXCEPT !.times_generated = @ + 1,
                !.name = nm,
                !.chords_data = json_dumps(chords_list),
                !.scale_notes = json_dumps(notes_list)]

\* the branch "else": a new SavedProgression, its id from the primary key
\* sequence and times_generated, is_favorite from the column defaults
new_row(rows, nm, k, st, sty, rh, chords_list, notes_list) ==
    [id |-> Len(rows) + 1, name |-> nm, key_signature |-> k,
     scale_type |-> st, style |-> sty, rhythm |-> rh,
     chords_data |-> json_dumps(chords_list),
     scale_notes |-> json_dumps(notes_list),
     times_generated |-> 1, is_favorite |-> FALSE]

\* the table after a committed save
saved_after(rows, nm, k, st, sty, rh, chords_list, notes_list) ==
    LET existing == existing_of(rows, k, st, sty, rh)
    IN  IF existing # 0
        THEN [rows EXCEPT ![existing] = updated_row(@, nm, chords_list, notes_list)]
        ELSE Append(rows, new_row(rows, nm, k, st, sty, rh, chords_list, notes_list))

\* the response of a committed save
save_response(rows, k, st, sty, rh) ==
    LET existing == existing_of(rows, k, st, sty, rh)
    IN  IF existing # 0
        THEN [message |-> "Progressione aggiornata", id |-> rows[existing].id,
              status |-> 200]
        ELSE [message |-> "Progressione salvata", id |-> Len(rows) + 1,
              status |-> 200]

\* the number of committed saves a table records
RECURSIVE TimesSaved(_)
TimesSaved(rows) ==
    IF rows = <<>> THEN 0 ELSE Head(rows).times_generated + TimesSaved(Tail(rows))

\* request bodies: four (key, scale, style, rhythm) tuples, two of them
\* differing in rhythm only and one in the case of the style only, each with
\* two payloads, and the empty body
SaveTuples ==
    {("key" :> "C") @@ ("scale" :> "major") @@ ("style" :> "pop") @@ ("rhythm" :> "moderato"),
     ("key" :> "C") @@ ("scale" :> "major") @@ ("style" :> "pop") @@ ("rhythm" :> "veloce"),
     ("key" :> "C") @@ ("scale" :> "major") @@ ("style" :> "Pop") @@ ("rhythm" :> "moderato"),
     ("key" :> "D") @@ ("scale" :> "dorian") @@ ("style" :> "rock") @@ ("rhythm" :> "veloce")}
SavePayloads ==
    {("name" :> "Prima") @@ ("chords" :> <<"C maj", "G maj">>)
        @@ ("scale_notes" :> <<"C", "D", "E">>),
     ("chords" :> <<"D min">>) @@ ("scale_notes" :> <<"D", "E">>)}
SaveRequests ==
    {t @@ p : t \in SaveTuples, p \in SavePayloads} \cup {<<>>}
\* the requests of one run stop once MaxSaved saves were committed
MaxSaved == 3

InitSave ==
    /\ fn = "save_progression" /\ pc = "call"
    /\ data \in SaveRequests /\ rnd = <<>>
    /\ key = "" /\ scale_type = "" /\ grado = "" /\ chord_name = ""
    /\ scale = <<>> /\ chord = "" /\ tablature = <<>>
    /\ style = "" /\ rhythm = "" /\ n_chords = 0 /\ gradi = <<>> /\ scelti = <<>>
    /\ result = <<>>
    /\ locals = <<>>
    /\ database_url \in {None, "postgresql://localhost/accordi"}
    /\ user_statistics = <<>>
    /\ session = "idle"
    /\ saved_progressions = <<>>

\* POST /save-progression: the whole handler, its commit or rollback
\* included; an exception anywhere in the try block (a database error, a
\* body that is not a JSON object) ends in the rollback
SaveProgression ==
    /\ fn = "save_progression" /\ pc = "call"
    /\ IF database_url = None
       THEN /\ result' = [error |-> "Database not available", status |-> 500]
            /\ UNCHANGED <<key, scale_type, style, rhythm, locals, session,
                           saved_progressions>>
       ELSE /\ key' = Get(data, "key", "C")
            /\ scale_type' = Get(data, "scale", "major")
            /\ style' = Get(data, "style", "pop")
            /\ rhythm' = Get(data, "rhythm", "moderato")
            /\ locals' = [name |-> Get(data, "name", default_name),
                          chords_data |-> Get(data, "chords", <<>>),
                          scale_notes |-> Get(data, "scale_notes", <<>>)]
            /\ \E outcome \in {"committed", "rolled back"} :
                  /\ session' = outcome
                  /\ IF outcome = "committed"
                     THEN /\ saved_progressions' =
                                saved_after(saved_progressions, locals'.name,
                                            key', scale_type', style', rhythm',
                                            locals'.chords_data, locals'.scale_notes)
                          /\ result' = save_response(saved_progressions, key',
                                                     scale_type', style', rhythm')
                     ELSE /\ saved_progressions' = saved_progressions
                          /\ result' = [error |-> "Errore nel salvataggio",
                                        status |-> 500]
    /\ pc' = "return"
    /\ UNCHANGED <<fn, grado, chord_name, scale, chord, tablature, data, rnd,
                   n_chords, gradi, scelti, database_url, user_statistics>>

\* the next save request arrives after the previous response
NextSaveRequest ==
    /\ fn = "save_progression" /\ pc = "return"
    /\ TimesSaved(saved_progressions) < MaxSaved
    /\ data' \in SaveRequests
    /\ key' = "" /\ scale_type' = "" /\ style' = "" /\ rhythm' = ""
    /\ result' = <<>> /\ locals' = <<>>
    /\ session' = "idle"
    /\ pc' = "call"
    /\ UNCHANGED <<fn, grado, chord_name, scale, chord, tablature, rnd, n_chords,
                   gradi, scelti, database_url, user_statistics,
                   saved_progressions>>

SpecSave == InitSave /\ [][SaveProgression \/ NextSaveRequest]_vars

(***************************************************************************)
(* Properties                                                              *)
(***************************************************************************)
ScaleReturned == fn = "get_scale" /\ pc = "return"

TabReturned == fn = "tablature" /\ pc = "return"

\* the six strings of a diagram, high e to low E
StringNames == <<"e", "B", "G", "D", "A", "E">>

\* the muted marker of string s, or one integer fret of 0..12 on string s
TabLineOK(s, line) ==
    \/ line = s \o "|--x--"
    \/ \E n \in 0..12 : line = s \o "|--" \o IntToStr(n) \o "--"

\* A chord of the form "<note> <quality>": a canonical note, one space, a
\* non-empty quality without spaces.
WellFormedChord(c) ==
    /\ Contains(c, " ")
    /\ Before(c, " ") \in NoteSet
    /\ After(c, " ") # ""
    /\ ~Contains(After(c, " "), " ")

DegreeReturned == fn = "grado_to_accordo" /\ pc = "return"

\* a request answered with a progression record
Generated ==
    fn = "generate_progression" /\ pc = "return" /\ "chords" \in DOMAIN result

\* the members of a sequence
Range(seq) == {seq[i] : i \in 1..Len(seq)}

\* C1: for every chord name, the tablature lookup (exact lookup in TABLATURES,
\* then generate_basic_tablature on a miss) returns exactly 6 entries, each
\* the muted marker or a single integer fret in 0..12.
C1_SixStringsFretsInRange ==
    TabReturned =>
        /\ Len(tablature) = 6
        /\ \A i \in 1..6 : TabLineOK(StringNames[i], tablature[i])
\* a miss with no entry of the quality: the C pattern moved up 9, reaching 12
C1_Witness ==
    /\ TabReturned /\ chord_name = "A o7"
    /\ tablatures_get(chord_name) = <<>>
    /\ tablature = <<"e|--9--", "B|--10--", "G|--9--", "D|--11--", "A|--12--", "E|--x--">>

\* C2: for every canonical root, every mode and every degree symbol,
\* grado_to_accordo returns a chord whose quality is in the closed set
\* maj, min, dim, aug, 7, maj7, m7, 9, sus2, sus4.
C2_QualityInClosedSet ==
    (DegreeReturned /\ key \in NoteSet /\ scale_type \in Modes) =>
        After(chord, " ") \in ClosedQualitySet

\* C3: for every canonical root, every mode identifier (known or unknown) and
\* every degree symbol, grado_to_accordo does not raise and returns a chord
\* of the form "<note> <quality>".
C3_NeverRaises ==
    (DegreeReturned /\ key \in NoteSet) =>
        /\ chord # ValueError
        /\ WellFormedChord(chord)
\* a symbol absent from every table, under an unknown mode
C3_Witness ==
    /\ DegreeReturned /\ key = "F#" /\ scale_type \in UnknownModes
    /\ grado = "bX7"
    /\ grado \notin TableSymbols
    /\ chord = "F# 7"

\* C4: for each canonical root and each of the 9 modes get_scale returns
\* exactly 7 notes, the i-th being NOTE_NAMES[(index(root) + offset_i) mod 12]
\* for the mode's i-th offset; every note is one of the 12 names and the
\* first note is the root.
C4_ScaleNotes ==
    (ScaleReturned /\ key \in NoteSet /\ scale_type \in Modes) =>
        /\ Len(scale) = 7
        /\ scale[1] = key
        /\ \A i \in 1..7 :
              /\ scale[i] \in NoteSet
              /\ scale[i] = NOTE_NAMES[((NoteIndex(key) + SCALE_INTERVALS[scale_type][i]) % 12) + 1]
C4_Witness ==
    ScaleReturned /\ key = "A" /\ scale_type = "locrian"
        /\ scale = <<"A", "A#", "C", "D", "D#", "F", "G">>

\* C5: for every canonical key and every mode, style and tempo class, each
\* chord entry returned by generate_progression has a degree that is a member
\* of the degree pool resolved for that style and mode, a name equal to
\* grado_to_accordo(key, degree, mode), and a non-empty tablature of exactly
\* 6 lines.
C5_ChordEntries ==
    (Generated /\ key \in NoteSet) =>
        \A j \in 1..Len(result.chords) :
            LET entry == result.chords[j]
                pool == IF style \in DOMAIN PROGRESSIONI
                           /\ scale_type \in DOMAIN PROGRESSIONI[style]
                        THEN PROGRESSIONI[style][scale_type]
                        ELSE <<"I", "IV", "V">>
            IN  /\ entry.degree \in Range(pool)
                /\ entry.name = grado_to_accordo(key, entry.degree, scale_type)
                /\ entry.tablature # <<>>
                /\ Len(entry.tablature) = 6
                /\ \A i \in 1..6 : entry.tablature[i] # ""
\* generate(key C, major, pop, lento): 3 entries from the pop/major pool, one
\* of them V7, whose name G 7 misses the exact lookup
C5_Witness ==
    /\ Generated
    /\ data = ("key" :> "C") @@ ("scale" :> "major") @@ ("style" :> "pop")
                @@ ("rhythm" :> "lento")
    /\ Len(result.chords) = 3
    /\ \A j \in 1..3 : result.chords[j].degree \in
          {"I", "vi", "IV", "V", "ii", "V7", "Isus4", "Vsus4", "vi7", "I9"}
    /\ result.chords[1].degree = "V7" /\ result.chords[1].name = "G 7"
    /\ "G 7" \notin DOMAIN TABLATURES_dict
    /\ Len(result.chords[1].tablature) = 6

\* C6: the number of chord entries returned by generate_progression is
\* determined only by the tempo class: 3 for lento, 6 for moderato, 9 for
\* veloce, and 6 for any other tempo class.
C6_CountByTempo ==
    Generated =>
        Len(result.chords) = CASE rhythm = "lento" -> 3
                               [] rhythm = "moderato" -> 6
                               [] rhythm = "veloce" -> 9
                               [] OTHER -> 6
C6_Witness ==
    /\ Generated /\ rhythm = "adagio" /\ Len(result.chords) = 6
    /\ key = "G" /\ style = "jazz" /\ scale_type = "minor"

\* C7: the degree pool of generate_progression is exactly [I, IV, V] whenever
\* the style is not in the progression table (whatever the mode), and also
\* whenever the style is known but the mode is absent from its sub-table; in
\* every other case it is the table's sequence for that style and mode.
C7_PoolFallback ==
    (fn = "generate_progression" /\ pc = "return") =>
        /\ style \notin DOMAIN PROGRESSIONI => gradi = <<"I", "IV", "V">>
        /\ (style \in DOMAIN PROGRESSIONI /\ scale_type \notin DOMAIN PROGRESSIONI[style])
              => gradi = <<"I", "IV", "V">>
        /\ (style \in DOMAIN PROGRESSIONI /\ scale_type \in DOMAIN PROGRESSIONI[style])
              => gradi = PROGRESSIONI[style][scale_type]
        /\ Generated => \A j \in 1..Len(result.chords) :
                           result.chords[j].degree \in Range(gradi)
\* an unknown style with a mode other than major
C7_Witness ==
    /\ Generated /\ style = "blues" /\ scale_type = "dorian"
    /\ gradi = <<"I", "IV", "V">>
    /\ result.chords[1].degree = "IV"

\* C8: in major mode bVII resolves, for every canonical root, to the note one
\* semitone below the scale's 7th note, which is 10 semitones above the root
\* (mod 12), with quality maj; at key C this is A# maj.
C8_FlatSeventhInMajor ==
    (DegreeReturned /\ key \in NoteSet /\ scale_type = "major" /\ grado = "bVII") =>
        /\ chord = NOTE_NAMES[((NoteIndex(key) + 10) % 12) + 1] \o " maj"
        /\ chord = NOTE_NAMES[((NoteIndex(get_scale(key, "major")[7]) + 11) % 12) + 1] \o " maj"
        /\ (key = "C" => chord = "A# maj")
C8_Witness ==
    DegreeReturned /\ key = "C" /\ scale_type = "major" /\ grado = "bVII"
        /\ chord = "A# maj"

\* C9: for every canonical root and each of the 9 modes, the symbols I and i,
\* and the mode's own tonic symbols (those its degree map sends to position
\* 0, such as io in locrian), resolve to a chord whose root is the first note
\* of get_scale(root, mode).
TonicSymbols(m) ==
    {"I", "i"} \cup {g \in DOMAIN DEGREE_MAPPINGS[m].degrees : DEGREE_MAPPINGS[m].degrees[g] = 0}
C9_TonicIsScaleRoot ==
    (DegreeReturned /\ key \in NoteSet /\ scale_type \in Modes
        /\ grado \in TonicSymbols(scale_type)) =>
        /\ Contains(chord, " ")
        /\ Before(chord, " ") = get_scale(key, scale_type)[1]
\* i in a mode whose degree map only has I: the Roman-numeral fallback
C9_Witness ==
    /\ DegreeReturned /\ key = "E" /\ scale_type = "lydian" /\ grado = "i"
    /\ "i" \notin DOMAIN DEGREE_MAPPINGS["lydian"].degrees
    /\ chord = "E maj"

\* C10: when a chord name misses the exact lookup and a table entry of the
\* same quality is found, every non-muted string of the result has fret f + d
\* when f + d <= 12 and (f + d) mod 12 when f + d > 12, f the source entry's
\* fret and d = (targetRootIndex - sourceRootIndex) mod 12; muted strings
\* stay muted.  In particular a sum of exactly 12 is emitted as 12.
C10_WrapOnlyAboveTwelve ==
    (/\ TabReturned
     /\ tablatures_get(chord_name) = <<>>
     /\ Contains(chord_name, " ")
     /\ Before(chord_name, " ") \in NoteSet
     /\ matching_entries(After(chord_name, " ")) # {}) =>
        LET source == TABLATURES[Min(matching_entries(After(chord_name, " ")))]
            d == (NoteIndex(Before(chord_name, " "))
                    - NoteIndex(Before(source.chord, " "))) % 12
        IN  /\ Len(tablature) = Len(source.tab)
            /\ \A i \in 1..Len(source.tab) :
                  IF Contains(source.tab[i], "--x--")
                  THEN tablature[i] = source.tab[i]
                  ELSE LET f == ParseInt(fret_match_of(source.tab[i]))
                       IN  tablature[i] = StringNames[i] \o "|--"
                              \o IntToStr(IF f + d <= 12 THEN f + d ELSE (f + d) % 12)
                              \o "--"

C12_UnknownModeIsMajor ==
    (DegreeReturned /\ key \in NoteSet /\ scale_type \notin Modes) =>
        /\ get_scale(key, scale_type) = get_scale(key, "major")
        /\ get_scale(key, scale_type) # <<ValueError>>
        /\ chord = grado_to_accordo(key, grado, "major")

\* vi under an unknown mode is the minor chord on the 6th note of D major
C12_Witness ==
    /\ DegreeReturned
    /\ key = "D" /\ scale_type = "blues" /\ grado = "vi"
    /\ get_scale(key, scale_type) = <<"D", "E", "F#", "G", "A", "B", "C#">>
    /\ chord = "B min"

\* the mode whose tables grado_to_accordo reads for a mode argument
ModeOf(st) == IF st \in DOMAIN DEGREE_MAPPINGS THEN st ELSE "major"
DegreeMapOf(st) == DEGREE_MAPPINGS[ModeOf(st)].degrees
TypeMapOf(st) == DEGREE_MAPPINGS[ModeOf(st)].types
\* note and quality of a chord "<note> <quality>"
ChordRoot(c) == Before(c, " ")
ChordQuality(c) == After(c, " ")
\* the note n semitones above (below, for negative n) a canonical note
Semitones(note, n) == NOTE_NAMES[((NoteIndex(note) + n + 12) % 12) + 1]
\* grado_to_accordo returned for a canonical root and a symbol that is not a
\* key of the mode's degree map
ParsedReturn ==
    /\ DegreeReturned
    /\ key \in NoteSet
    /\ grado \notin DOMAIN DegreeMapOf(scale_type)

\* C13: whenever the degree symbol is a key of the mode's degree map,
\* grado_to_accordo returns exactly the scale note at the map's position with
\* the type map's quality for the symbol: no extension is stripped and no
\* semitone shift is applied, also when the symbol begins with b or #.
C13_DirectLookupWins ==
    (DegreeReturned /\ key \in NoteSet /\ grado \in DOMAIN DegreeMapOf(scale_type)) =>
        /\ grado \in DOMAIN TypeMapOf(scale_type)
        /\ chord = get_scale(key, ModeOf(scale_type))[DegreeMapOf(scale_type)[grado] + 1]
                      \o " " \o TypeMapOf(scale_type)[grado]
        /\ locals.found_extension = Unbound
        /\ locals.base = Unbound

\* bVII in A minor is G, the 7th note of the scale, not the note below it
C13_Witness ==
    /\ DegreeReturned
    /\ key = "A" /\ scale_type = "minor" /\ grado = "bVII"
    /\ chord = "G maj"

\* the order in which the extension tokens are tried
TokenOrder == <<"maj7", "m7", "o7", "+7", "sus4", "sus2", "9", "7", "o", "+">>
\* the positions of TokenOrder whose token occurs in the symbol s
TokenHits(s) == {i \in 1..Len(TokenOrder) : Contains(s, TokenOrder[i])}

\* C14: for a degree symbol that misses the exact lookup, the first token of
\* maj7, m7, o7, +7, sus4, sus2, 9, 7, o, + that occurs in the symbol is the
\* only token stripped, the symbol without it is the base token, and the token
\* is the chord quality; when no token occurs, the base is the whole symbol
\* and the quality is the type map's entry for it, or maj.
C14_FirstExtensionInOrder ==
    ParsedReturn =>
        /\ IF TokenHits(grado) = {}
           THEN /\ locals.found_extension = ""
                /\ locals.base = grado
                /\ locals.chord_type = Get(TypeMapOf(scale_type), grado, "maj")
           ELSE LET e == TokenOrder[Min(TokenHits(grado))]
                IN  /\ locals.found_extension = e
                    /\ locals.base = Remove(grado, e)
                    /\ locals.chord_type = e
        /\ ChordQuality(chord) = locals.chord_type

\* V7sus4 holds both 7 and sus4: sus4 comes first in the order, V7 remains
C14_Witness ==
    /\ ParsedReturn
    /\ key = "C" /\ scale_type = "major" /\ grado = "V7sus4"
    /\ locals.found_extension = "sus4" /\ locals.base = "V7"
    /\ chord = "G sus4"

\* the altered base tokens and the scale position each one reads
FlatPositions ==
    ("bVII" :> 6) @@ ("bvii" :> 6) @@ ("bVI" :> 5) @@ ("bIII" :> 2) @@
    ("biii" :> 2) @@ ("bII" :> 1) @@ ("bV" :> 4)
SharpPositions == ("#iv" :> 3) @@ ("#IV" :> 3)

\* C15: for a degree symbol that misses the exact lookup, a base token among
\* bVII, bvii, bVI, bIII, biii, bII, bV gives the note one semitone below
\* scale position 6, 6, 5, 2, 2, 1, 4; base #iv or #IV gives the note one
\* semitone above scale position 3; any other base token starting with b or #
\* is not shifted: it is looked up in the degree map, and resolves to the
\* requested root when the map does not have it.
C15_AlteredDegrees ==
    (ParsedReturn /\ (StartsWith(locals.base, "b") \/ StartsWith(locals.base, "#"))) =>
        LET sc == get_scale(key, ModeOf(scale_type))
            b == locals.base
        IN  ChordRoot(chord) =
                IF b \in DOMAIN FlatPositions
                THEN Semitones(sc[FlatPositions[b] + 1], -1)
                ELSE IF b \in DOMAIN SharpPositions
                THEN Semitones(sc[SharpPositions[b] + 1], 1)
                ELSE IF b \in DOMAIN DegreeMapOf(scale_type)
                THEN sc[DegreeMapOf(scale_type)[b] + 1]
                ELSE key

\* bV7 in C major: G lowered to F#
C15_Witness ==
    /\ ParsedReturn
    /\ key = "C" /\ scale_type = "major" /\ grado = "bV7"
    /\ locals.base = "bV"
    /\ chord = "F# 7"

\* #ivo9 in C lydian: the base #ivo is a key of the degree map and is not
\* shifted
C15_WitnessUnshifted ==
    /\ ParsedReturn
    /\ key = "C" /\ scale_type = "lydian" /\ grado = "#ivo9"
    /\ locals.base = "#ivo"
    /\ chord = "F# 9"

\* a symbol that matches none of steps 1 to 5: not a key of the degree map,
\* base token neither a recognized altered degree, nor a key of the degree
\* map, nor a Roman numeral
NothingMatched ==
    /\ ParsedReturn
    /\ locals.base \notin DOMAIN FlatPositions \cup DOMAIN SharpPositions
    /\ locals.base \notin DOMAIN DegreeMapOf(scale_type)
    /\ locals.base \notin {"I", "II", "III", "IV", "V", "VI", "VII",
                            "i", "ii", "iii", "iv", "v", "vi", "vii"}

\* C16 as stated: when a degree symbol matches none of steps 1 to 5,
\* grado_to_accordo returns the requested root with quality maj.
C16_FallbackIsRootMaj ==
    NothingMatched => chord = key \o " maj"

\* C16 as amended: when a degree symbol matches none of steps 1 to 5,
\* grado_to_accordo returns the requested root with the quality of step 2:
\* the extension token stripped from the symbol, or maj when no token occurs
\* in it.
C16_FallbackIsRootWithParsedQuality ==
    NothingMatched =>
        chord = key \o " " \o
                  (IF TokenHits(grado) = {} THEN "maj"
                   ELSE TokenOrder[Min(TokenHits(grado))])

\* X7 in C major: no step knows the base X, the quality is the stripped 7
C16_Witness ==
    /\ NothingMatched
    /\ key = "C" /\ scale_type = "major" /\ grado = "X7"
    /\ chord = "C 7"

\* the open C major shape: frets of the strings e, B, G, D, A; E is muted
OpenCShape == <<0, 1, 0, 2, 3>>
\* the chord name has a canonical root, is not a key of the table, and no key
\* of the table ends in its quality
NoEntryOfQuality ==
    /\ Contains(chord_name, " ")
    /\ Before(chord_name, " ") \in NoteSet
    /\ \A i \in 1..Len(TABLATURES) :
          /\ TABLATURES[i].chord # chord_name
          /\ ~EndsWith(TABLATURES[i].chord, " " \o After(chord_name, " "))

\* C17: when a chord name with a canonical root misses the exact lookup and no
\* table entry has its quality, the result is the open C major shape (e:0,
\* B:1, G:0, D:2, A:3, E muted) with each fret f replaced by f + d if
\* f + d <= 12 and by (f + d) mod 12 otherwise, d being the root's index
\* minus the index of C, mod 12; for root C the shape is returned unchanged.
C17_OpenCShapeTransposed ==
    (TabReturned /\ NoEntryOfQuality) =>
        LET d == (NoteIndex(Before(chord_name, " ")) - NoteIndex("C") + 12) % 12
            fret(i) == IF OpenCShape[i] + d <= 12 THEN OpenCShape[i] + d
                       ELSE (OpenCShape[i] + d) % 12
        IN  /\ Len(tablature) = 6
            /\ \A i \in 1..5 :
                  tablature[i] = StringNames[i] \o "|--" \o IntToStr(fret(i)) \o "--"
            /\ tablature[6] = "E|--x--"
            /\ Before(chord_name, " ") = "C" =>
                  tablature = <<"e|--0--", "B|--1--", "G|--0--", "D|--2--",
                                "A|--3--", "E|--x--">>

\* B +: d = 11, the sums 11, 12, 11 stay and 13, 14 wrap to 1, 2
C17_Witness ==
    /\ TabReturned /\ NoEntryOfQuality
    /\ chord_name = "B +"
    /\ tablature = <<"e|--11--", "B|--12--", "G|--11--", "D|--1--", "A|--2--", "E|--x--">>

\* C18: the response of generate_progression does not depend on the
\* statistics update: whether no database is configured, the update commits
\* or it fails, the response is the progression record computed from the
\* request; a failed update is rolled back and leaves the stored rows as they
\* were; a committed update increases total_progressions_generated by exactly
\* 1; and without a database the table is never touched.
C18_ResponseIndependentOfStatistics ==
    [][(fn = "generate_progression" /\ pc = "call" /\ pc' = "return") =>
          /\ result' = result_of(Get(data, "key", "C"), Get(data, "scale", "major"),
                                 style', scelti')
          /\ session' = "rolled back" => user_statistics' = user_statistics
          /\ session' = "committed" =>
                /\ Len(user_statistics') =
                      Len(user_statistics) + (IF user_statistics = <<>> THEN 1 ELSE 0)
                /\ TotalOf(user_statistics') = TotalOf(user_statistics) + 1
          /\ database_url = None =>
                (session' = "idle" /\ user_statistics' = user_statistics)
          /\ (database_url # None /\ "chords" \in DOMAIN result') =>
                session' \in {"committed", "rolled back"}]_vars

\* a request whose update failed after an earlier request had committed: the
\* progression is returned and the counter still reads 1
C18_Witness ==
    /\ fn = "generate_progression" /\ pc = "return"
    /\ database_url # None
    /\ session = "rolled back"
    /\ "chords" \in DOMAIN result /\ Len(result.chords) = 9
    /\ TotalOf(user_statistics) = 1
    /\ user_statistics[1].most_used_key = "D"
    /\ user_statistics[1].most_used_style = "rock"

\* C19: the root a degree resolves to does not depend on its extension: for
\* every canonical root, every mode, every altered degree B (starting with b
\* or #) that is a key of the mode's degree map and every extension token e
\* such that B followed by e is not a key of the map, grado_to_accordo of B
\* followed by e has the same root note as grado_to_accordo of B.
C19_RootIndependentOfExtension ==
    (DegreeReturned /\ key \in NoteSet) =>
        \A B \in DOMAIN DegreeMapOf(scale_type) : \A e \in ExtTokens :
            ( /\ StartsWith(B, "b") \/ StartsWith(B, "#")
              /\ grado = B \o e
              /\ grado \notin DOMAIN DegreeMapOf(scale_type) )
            => ChordRoot(chord) = ChordRoot(grado_to_accordo(key, B, scale_type))

\* C20: in each of the 9 modes the degree map and the type map have the same
\* keys, so whenever the exact lookup misses, the symbol is not a key of the
\* type map and the quality is never the type map's entry for the full
\* symbol: it is the stripped extension token, or the entry of the base
\* token, or maj.
C20_TypeMapClauseNeverApplies ==
    /\ \A m \in DOMAIN DEGREE_MAPPINGS :
          DOMAIN DEGREE_MAPPINGS[m].degrees = DOMAIN DEGREE_MAPPINGS[m].types
    /\ (DegreeReturned /\ locals.found_extension # Unbound) =>
          /\ grado \notin DOMAIN TypeMapOf(scale_type)
          /\ locals.chord_type =
                IF locals.found_extension # "" THEN locals.found_extension
                ELSE Get(TypeMapOf(scale_type), locals.base, "maj")

\* viio7 of the jazz pool in major: harmonic_minor's type map has it as dim,
\* major's has no entry, and the quality is the stripped token
C20_Witness ==
    /\ DegreeReturned
    /\ key = "C" /\ scale_type = "major" /\ grado = "viio7"
    /\ "viio7" \in DOMAIN DEGREE_MAPPINGS["harmonic_minor"].types
    /\ locals.found_extension = "o7" /\ locals.chord_type = "o7"
    /\ chord = "B o7"

\* a tablature line that carries a fret number
Fretted(line) == ParseInt(fret_match_of(line)) >= 0

\* C21: for every canonical key and any mode, style and tempo class, every
\* chord entry returned by generate_progression has a name whose root is one
\* of the 12 canonical note names, and its tablature is never the all-muted
\* diagram: at least one of its 6 strings carries a fret number.
C21_CanonicalRootNeverAllMuted ==
    Generated =>
        /\ key \in NoteSet
        /\ \A j \in 1..Len(result.chords) :
              /\ ChordRoot(result.chords[j].name) \in NoteSet
              /\ result.chords[j].tablature # muted_tablature
              /\ \E i \in 1..Len(result.chords[j].tablature) :
                    Fretted(result.chords[j].tablature[i])

\* viio7 of the jazz pool in A major: G# o7 has no entry and no entry of its
\* quality, and gets the C shape moved up 8
C21_Witness ==
    /\ Generated
    /\ key = "A" /\ scale_type = "major" /\ style = "jazz"
    /\ \E j \in 1..Len(result.chords) :
          /\ result.chords[j].degree = "viio7"
          /\ result.chords[j].name = "G# o7"
          /\ result.chords[j].tablature =
                <<"e|--8--", "B|--9--", "G|--8--", "D|--10--", "A|--11--", "E|--x--">>

\* the (key, scale, style, rhythm) tuple of the request being served
SaveTupleOf(req) ==
    <<Get(req, "key", "C"), Get(req, "scale", "major"),
      Get(req, "style", "pop"), Get(req, "rhythm", "moderato")>>
RowTuple(row) == <<row.key_signature, row.scale_type, row.style, row.rhythm>>
RowsOfTuple(rows, t) == {i \in 1..Len(rows) : RowTuple(rows[i]) = t}
OnePerTuple(rows) ==
    \A i, j \in 1..Len(rows) : RowTuple(rows[i]) = RowTuple(rows[j]) => i = j
SaveSucceeded(res) == "message" \in DOMAIN res

\* C22: after any sequence of save_progression requests, each completed
\* before the next starts, the table holds at most one row per (key, scale,
\* style, rhythm) tuple; a save that succeeds on a tuple already stored adds
\* no row, raises that row's times_generated by 1 and replaces its name,
\* chords and scale notes, leaving every other row alone; a save that
\* succeeds on a new tuple appends exactly one row, for that tuple, counted
\* once; a save that is answered with an error leaves the table unchanged.
C22_OneRowPerTuple ==
    /\ [](OnePerTuple(saved_progressions))
    /\ [][(fn = "save_progression" /\ pc = "call" /\ pc' = "return") =>
            LET t    == SaveTupleOf(data)
                old  == saved_progressions
                new  == saved_progressions'
                hits == RowsOfTuple(old, t)
            IN  IF ~SaveSucceeded(result') THEN new = old
                ELSE IF hits # {}
                THEN /\ Len(new) = Len(old)
                     /\ \A i \in 1..Len(old) :
                           IF i \in hits
                           THEN /\ new[i].times_generated = old[i].times_generated + 1
                                /\ new[i].name = Get(data, "name", default_name)
                                /\ new[i].chords_data = json_dumps(Get(data, "chords", <<>>))
                                /\ new[i].scale_notes = json_dumps(Get(data, "scale_notes", <<>>))
                                /\ new[i].id = old[i].id
                                /\ RowTuple(new[i]) = t
                                /\ result'.id = old[i].id
                           ELSE new[i] = old[i]
                ELSE /\ Len(new) = Len(old) + 1
                     /\ SubSeq(new, 1, Len(old)) = old
                     /\ RowTuple(new[Len(new)]) = t
                     /\ new[Len(new)].times_generated = 1
                     /\ new[Len(new)].chords_data = json_dumps(Get(data, "chords", <<>>))
                     /\ result'.id = new[Len(new)].id
         ]_vars

\* C22 witness: two tuples stored, the first one saved twice and carrying
\* the name and chords of its second save
C22_Witness ==
    /\ fn = "save_progression" /\ pc = "return"
    /\ result = [message |-> "Progressione aggiornata", id |-> 1, status |-> 200]
    /\ Len(saved_progressions) = 2
    /\ saved_progressions[1].times_generated = 2
    /\ saved_progressions[1].name = default_name
    /\ saved_progressions[1].chords_data = "[\"D min\"]"
    /\ saved_progressions[1].rhythm = "moderato"
    /\ saved_progressions[2].times_generated = 1
    /\ saved_progressions[2].rhythm = "veloce"
    /\ saved_progressions[2].key_signature = "C"

\* the TABLATURES keys written without a space between note and quality
SpacelessKeys == {k \in DOMAIN TABLATURES_dict : ~Contains(k, " ")}
NaturalNotes == {"C", "D", "E", "F", "G", "A", "B"}
\* the first entry, in authored order, whose key ends in " " and the quality
FirstEntryEnding(q) ==
    TABLATURES[Min({i \in 1..Len(TABLATURES) : EndsWith(TABLATURES[i].chord, " " \o q)})]
\* tab is the entry src moved up d semitones: muted strings stay muted, a
\* fretted string keeps its name and sounds the pitch class of fret + d
TransposedBy(tab, src, d) ==
    /\ Len(tab) = Len(src)
    /\ \A i \in 1..Len(src) :
          IF Contains(src[i], "--x--") THEN tab[i] = src[i]
          ELSE /\ Before(tab[i], "|") = Before(src[i], "|")
               /\ tab[i] = tab_format(src[i], ParseInt(fret_match_of(tab[i])))
               /\ ParseInt(fret_match_of(tab[i])) \in 0..12
               /\ (ParseInt(fret_match_of(tab[i]))
                      - (ParseInt(fret_match_of(src[i])) + d)) % 12 = 0

\* C23: every chord name of a response has a space between note and
\* quality, so the entries keyed without one (C7 .. B7, C9 .. B9) are never
\* looked up and their tablatures never returned; a chord of quality 7 or 9
\* on a natural root carries the first entry ending in " 7" or " 9", which
\* is C# 7 or C# 9, transposed to its root.
C23_SpacelessEntriesNeverReturned ==
    /\ SpacelessKeys = {n \o q : n \in NaturalNotes, q \in {"7", "9"}}
    /\ Generated =>
          \A j \in 1..Len(result.chords) :
             LET name == result.chords[j].name
                 tab  == result.chords[j].tablature
                 root == ChordRoot(name)
                 q    == ChordQuality(name)
             IN  /\ Contains(name, " ")
                 /\ name \notin SpacelessKeys
                 /\ \A k \in SpacelessKeys : tab # TABLATURES_dict[k]
                 /\ (q \in {"7", "9"} /\ root \in NaturalNotes) =>
                       LET src == FirstEntryEnding(q)
                       IN  /\ src.chord = "C# " \o q
                           /\ TransposedBy(tab, src.tab,
                                  (NoteIndex(root) - NoteIndex("C#")) % 12)

\* C23 witness: V7 in D major is "A 7"; the table has "A7" but no "A 7", and
\* the response carries the C# 7 shape moved up 8 semitones
C23_Witness ==
    /\ Generated /\ key = "D" /\ scale_type = "major"
    /\ "A7" \in DOMAIN TABLATURES_dict /\ "A 7" \notin DOMAIN TABLATURES_dict
    /\ \E j \in 1..Len(result.chords) :
          /\ result.chords[j].degree = "V7"
          /\ result.chords[j].name = "A 7"
          /\ result.chords[j].tablature =
                <<"e|--0--", "B|--0--", "G|--1--", "D|--0--", "A|--0--", "E|--x--">>
          /\ result.chords[j].tablature # TABLATURES_dict["A7"]

====
